---- MODULE Spec2Model ----
(***************************************************************************)
(* Verification model of the synthetic financial data generator            *)
(* (forrest-aleq/cosmic): one call of generateFinancialData, from the      *)
(* required-field check through company profile, account set, account      *)
(* filter and transaction set to the assembled response.                   *)
(*                                                                         *)
(* Dates are whole days relative to today (0 = today, -1 = yesterday).     *)
(* formatDataForDownload follows a returned response, and                  *)
(* formatTransactionsAsCsv is run on responses of its own (CsvSpec).       *)
(*                                                                         *)
(* Dates are whole days relative to today (0 = today, -1 = yesterday);     *)
(* timeZoneEast tells whether the local midnight falls on the previous     *)
(* UTC day.  Math.random() is a tape of RandPeriod values k/RandDen, k in  *)
(* 0..RandDen-1, read cyclically; the tape is chosen when the first        *)
(* random number is drawn.  Identifiers (account_id, transaction_id) are   *)
(* the characters drawn for them, of which the first RandPeriod are kept:  *)
(* the tape repeats after that.  Amounts are whole numbers of 1/AmountUnit *)
(* dollars, exact for the draws of the tape; the rounding of floating      *)
(* point numbers is not modelled.  The records keep the fields that        *)
(* decide the structure of accounts and transactions: display names,       *)
(* masks, locations and payment metadata are not part of the state, and    *)
(* the draws made for them are not taken from the tape.                    *)
(***************************************************************************)
EXTENDS Integers, Sequences, FiniteSets, TLC

VARIABLES
    pc,               \* position inside generateFinancialData
    companyData,      \* argument: Partial<CompanyProfile> ("" = field absent)
    options,          \* argument: DataGenerationOptions
    timeZoneEast,     \* environment: local time is ahead of UTC
    randomTape,       \* outcomes of Math.random(), numerators over RandDen
    randomPos,        \* number of Math.random() calls made so far
    companyProfile,   \* const companyProfile (main-generator.ts:38)
    accounts,         \* const accounts (main-generator.ts:41)
    filteredAccounts, \* const filteredAccounts (main-generator.ts:44)
    added,            \* generateTransactionSet: const added
    modified,         \* generateTransactionSet: const modified
    removed,          \* generateTransactionSet: const removed
    result,           \* <<>> or <<the returned PlaidTransactionsResponse>>
    error,            \* "" or the message of the Error thrown
    download,         \* <<>> or <<the text made for the download of result>>
    validation,       \* <<>> or <<what validateFinancialData returned>>
    statistics,       \* <<>> or <<what calculateDataStatistics returned>>
    formValues,       \* argument of generateMockData
    bankAccounts,     \* generateMockData: const bankAccounts
    creditCards,      \* generateMockData: const creditCards
    bankStatements,   \* generateMockData: const bankStatements
    creditStatements, \* generateMockData: const creditStatements
    iteration         \* index of the forEach callback to run next

vars == <<pc, companyData, options, timeZoneEast, randomTape, randomPos, companyProfile,
          accounts, filteredAccounts, added, modified, removed, result, error,
          download, validation, statistics, formValues, bankAccounts,
          creditCards, bankStatements, creditStatements, iteration>>

\* The variables of generateMockData.
mockVars ==
    <<formValues, bankAccounts, creditCards, bankStatements, creditStatements,
      iteration>>

----------------------------------------------------------------------------
(* Bounds of the model *)

RandDen == 3

RandPeriod == 2

MaxDaysAgo == 2

NumTransactions == {10, 50}

Rand == 0 .. (RandDen - 1)

DateChoices == {0 - MaxDaysAgo, 0}

----------------------------------------------------------------------------
(* Reference tables *)

COMPANY_SIZE_NAMES ==
    << "Startup (1-10)", "Small (11-50)", "Medium (51-200)",
       "Large (201-1000)", "Enterprise (1000+)" >>

INDUSTRIES ==
    << "Technology", "Retail", "Healthcare", "Financial Services",
       "Manufacturing", "Consulting", "Real Estate", "Education",
       "Hospitality", "Media & Entertainment" >>

BUSINESS_MODELS ==
    << "B2B", "B2C", "B2B2C", "D2C", "Marketplace", "SaaS", "Subscription" >>

SeqToSet(s) == { s[i] : i \in 1 .. Len(s) }

\* COMPANY_SIZES[size]?.index || 0 and the inline size tables of the
\* transaction generator: unknown size strings give index 0.
getSizeIndex(companySize) ==
    IF companySize \in SeqToSet(COMPANY_SIZE_NAMES)
    THEN (CHOOSE i \in 1 .. Len(COMPANY_SIZE_NAMES) :
              COMPANY_SIZE_NAMES[i] = companySize) - 1
    ELSE 0

industryMultipliers(industry) ==
    CASE industry = "Technology" -> 15
      [] industry = "Financial Services" -> 18
      [] industry = "Healthcare" -> 12
      [] industry = "Retail" -> 7
      [] industry = "Manufacturing" -> 10
      [] industry = "Consulting" -> 13
      [] industry = "Real Estate" -> 14
      [] industry = "Education" -> 6
      [] industry = "Hospitality" -> 5
      [] industry = "Media & Entertainment" -> 11
      [] OTHER -> 10

baseRevenues == << 500000, 2000000, 10000000, 50000000, 200000000 >>

baseCounts == << 50, 150, 400, 800, 1500 >>

\* Names that every object literal also answers through Object.prototype:
\* table[name] is then the inherited function, which is truthy, so the
\* `|| default` that follows the lookup does not apply.
ObjectPrototypeKeys == { "constructor", "toString", "valueOf" }

smallDistribution ==
    [total |-> 5, checking |-> 1, savings |-> 1, credit |-> 2,
     investment |-> 1, loan |-> 0]

\* sizeToAccountCount[profile.company_size] || sizeToAccountCount["Small
\* (11-50)"].  For an inherited name the lookup is a function, whose
\* checking, savings, credit, investment and loan are undefined: the loops
\* `i < undefined` run zero times.
sizeToAccountCount(companySize) ==
    CASE companySize \in ObjectPrototypeKeys ->
           [total |-> 0, checking |-> 0, savings |-> 0, credit |-> 0,
            investment |-> 0, loan |-> 0]
      [] companySize = "Startup (1-10)" ->
           [total |-> 3, checking |-> 1, savings |-> 1, credit |-> 1,
            investment |-> 0, loan |-> 0]
      [] companySize = "Small (11-50)" -> smallDistribution
      [] companySize = "Medium (51-200)" ->
           [total |-> 7, checking |-> 2, savings |-> 1, credit |-> 2,
            investment |-> 1, loan |-> 1]
      [] companySize = "Large (201-1000)" ->
           [total |-> 10, checking |-> 2, savings |-> 2, credit |-> 3,
            investment |-> 2, loan |-> 1]
      [] companySize = "Enterprise (1000+)" ->
           [total |-> 15, checking |-> 3, savings |-> 2, credit |-> 4,
            investment |-> 3, loan |-> 3]
      [] OTHER -> smallDistribution

investmentTypes == << "brokerage", "401k", "ira", "roth" >>

loanTypes == << "line of credit", "commercial", "construction", "mortgage" >>

----------------------------------------------------------------------------
(* Math.random() *)

\* The i-th Math.random() call counted from position pos of the tape.
mathRandom(tape, pos, i) == tape[((pos + i - 1) % RandPeriod) + 1]

\* Math.floor(Math.random() * n) for the draw r/RandDen (n may be negative).
floorRandomTimes(r, n) == (r * n) \div RandDen

Min(a, b) == IF a <= b THEN a ELSE b

\* Math.abs
Abs(x) == IF x < 0 THEN 0 - x ELSE x

----------------------------------------------------------------------------
(* Company generator (src/lib/generators/company-generator.ts) *)

namePrefixes ==
    << "Tech", "Global", "Advanced", "Premier", "Elite", "Smart",
       "Innovative", "Quantum", "Stellar", "Cosmic", "Apex", "Nova", "Omni",
       "Peak", "Prime" >>

nameSuffixes ==
    << "Solutions", "Systems", "Technologies", "Group", "Partners",
       "Enterprises", "Industries", "Networks", "Dynamics", "Ventures",
       "Labs", "Hub", "AI", "Tech", "Connect" >>

\* A company name is the sequence of its parts; <<>> is the empty name.
generateCompanyName(r1, r2) ==
    << namePrefixes[floorRandomTimes(r1, Len(namePrefixes)) + 1],
       nameSuffixes[floorRandomTimes(r2, Len(nameSuffixes)) + 1] >>

\* Math.round(x / d) for x >= 0, d > 0.
roundDiv(x, d) == (x \div d) + (IF 2 * (x % d) >= d THEN 1 ELSE 0)

\* The number NaN, kept as a value that no computation over the numbers of
\* the generators yields.
NaN == 0 - 1

\* annual_revenue = Math.round(baseRevenue * industryMultiplier * randomFactor)
\* with randomFactor = 0.8 + r/RandDen * 0.4; multipliers are kept in tenths.
\* For an inherited name industryMultipliers[industry] is a function, not
\* replaced by `|| 1.0`, and the product with it is NaN.
annualRevenue(companySize, industry, r) ==
    IF industry \in ObjectPrototypeKeys THEN NaN
    ELSE roundDiv((baseRevenues[getSizeIndex(companySize) + 1] \div 100)
                      * industryMultipliers(industry) * (8 * RandDen + 4 * r),
                  RandDen)

calculateFinancialMetrics(profile, r) ==
    [profile EXCEPT
        !.annual_revenue = annualRevenue(profile.company_size, profile.industry, r)]

\* Number of Math.random() calls generateCompanyProfile makes for `partial`.
profileDraws(partial) ==
    (IF partial.industry = "" THEN 1 ELSE 0)
  + (IF partial.business_model = "" THEN 1 ELSE 0)
  + (IF partial.company_size = "" THEN 1 ELSE 0)
  + (IF partial.company_name = <<>> THEN 2 ELSE 0)
  + 1

generateCompanyProfile(partial, tape, pos) ==
    LET n1 == IF partial.industry = "" THEN 1 ELSE 0
        n2 == n1 + (IF partial.business_model = "" THEN 1 ELSE 0)
        n3 == n2 + (IF partial.company_size = "" THEN 1 ELSE 0)
        n4 == n3 + (IF partial.company_name = <<>> THEN 2 ELSE 0)
        industry ==
            IF partial.industry # "" THEN partial.industry
            ELSE INDUSTRIES[floorRandomTimes(mathRandom(tape, pos, n1),
                                             Len(INDUSTRIES)) + 1]
        businessModel ==
            IF partial.business_model # "" THEN partial.business_model
            ELSE BUSINESS_MODELS[floorRandomTimes(mathRandom(tape, pos, n2),
                                                  Len(BUSINESS_MODELS)) + 1]
        companySize ==
            IF partial.company_size # "" THEN partial.company_size
            ELSE COMPANY_SIZE_NAMES[floorRandomTimes(mathRandom(tape, pos, n3),
                                                     Len(COMPANY_SIZE_NAMES)) + 1]
        companyName ==
            IF partial.company_name # <<>> THEN partial.company_name
            ELSE generateCompanyName(mathRandom(tape, pos, n4 - 1),
                                     mathRandom(tape, pos, n4))
    IN  calculateFinancialMetrics(
            [company_name |-> companyName, industry |-> industry,
             business_model |-> businessModel, company_size |-> companySize,
             annual_revenue |-> 0],
            mathRandom(tape, pos, n4 + 1))

----------------------------------------------------------------------------
(* Account generator (src/lib/generators/account-generator.ts) *)

\* A nullable number is <<>> (null) or <<n>>.
Null == <<>>

\* chars.length and length of generateAccountId / generateTransactionId.
IdChars == 62

IdLength == 22

\* An id is the sequence of the positions in `chars` of its IdLength
\* characters.  The tape repeats after RandPeriod draws, so the characters
\* after the first RandPeriod ones repeat them: the sequence kept is the id
\* up to that length, and two ids are equal exactly if these are.
randomId(tape, pos) ==
    [i \in 1 .. Min(IdLength, RandPeriod) |->
        floorRandomTimes(mathRandom(tape, pos, i), IdChars)]

\* account-generator.ts:15-25; IdLength draws.
generateAccountId(tape, pos) == randomId(tape, pos)

\* Math.floor(x * n / d) for x >= 0, computed without leaving 32 bits.
mulDivFloor(x, n, d) == (x \div d) * n + ((x % d) * n) \div d

\* Math.floor(x * (a + r * b)) with a, b given in tenths and r = k/RandDen.
floorScaled(x, a10, b10, k) ==
    mulDivFloor(x, a10 * RandDen + b10 * k, 10 * RandDen)

\* account-generator.ts:42-91 with the balance argument given.
generateBankAccount(accountType, balance, tape, pos) ==
    [account |->
        [account_id |-> generateAccountId(tape, pos),
         balances |-> [available |-> <<balance>>, current |-> balance,
                       limit |-> Null],
         type |-> "depository", subtype |-> accountType],
     draws |-> IdLength]

\* Mutation of generateCreditCard: available is the limit itself.
generateCreditCardAvailableIsLimit(creditLimit, currentBalance, tape, pos) ==
    [account |->
        [account_id |-> generateAccountId(tape, pos),
         balances |-> [available |-> <<creditLimit>>,
                       current |-> currentBalance,
                       limit |-> <<creditLimit>>],
         type |-> "credit", subtype |-> "credit card"],
     draws |-> IdLength]

\* account-generator.ts:100-134 with the balance argument given; a zero
\* credit limit is replaced by Math.floor(10000 + Math.random() * 90000).
generateCreditCard(creditLimit, currentBalance, tape, pos) ==
    LET fallback == creditLimit = 0
        limit == IF fallback
                 THEN 10000 + floorRandomTimes(mathRandom(tape, pos, 1), 90000)
                 ELSE creditLimit
        n == IF fallback THEN 1 ELSE 0
    IN  [account |->
            [account_id |-> generateAccountId(tape, pos + n),
             balances |-> [available |-> <<limit + currentBalance>>,
                           current |-> currentBalance,
                           limit |-> <<limit>>],
             type |-> "credit", subtype |-> "credit card"],
         draws |-> n + IdLength]

\* account-generator.ts:143-171 with the balance argument given.
generateInvestmentAccount(investmentType, balance, tape, pos) ==
    [account |->
        [account_id |-> generateAccountId(tape, pos),
         balances |-> [available |-> Null, current |-> balance, limit |-> Null],
         type |-> "investment", subtype |-> investmentType],
     draws |-> IdLength]

\* account-generator.ts:180-215 with the balance argument given.
generateLoanAccount(loanType, loanBalance, tape, pos) ==
    LET limit == IF loanType = "line of credit" THEN <<Abs(loanBalance)>> ELSE Null
    IN  [account |->
            [account_id |-> generateAccountId(tape, pos),
             balances |->
                [available |-> IF loanType = "line of credit"
                               THEN <<limit[1] + loanBalance>> ELSE Null,
                 current |-> loanBalance,
                 limit |-> limit],
             type |-> IF loanType = "line of credit" THEN "credit" ELSE "loan",
             subtype |-> loanType],
         draws |-> IdLength]

\* The iterations of the five loops of generateAccountSet, in order.
loopIterations(kind, count) == [i \in 1 .. count |-> [kind |-> kind, i |-> i - 1]]

accountPlan(d) ==
    loopIterations("checking", d.checking) \o loopIterations("savings", d.savings)
        \o loopIterations("credit", d.credit)
        \o loopIterations("investment", d.investment)

loanPlan(d) == loopIterations("loan", d.loan)

\* One loop iteration (account-generator.ts:247-303): the balance draw,
\* then the account.  The result carries the number of draws consumed.
generateAccountOfPlan(e, revenue, tape, pos) ==
    LET r == mathRandom(tape, pos, 1)
        made ==
          CASE e.kind = "checking" ->
                 generateBankAccount(
                     "checking",
                     IF e.i = 0
                     THEN mulDivFloor(revenue, 8 * (7 * RandDen + 6 * r),
                                      1000 * RandDen)
                     ELSE mulDivFloor(revenue, 3 * (7 * RandDen + 6 * r),
                                      1000 * RandDen),
                     tape, pos + 1)
            [] e.kind = "savings" ->
                 generateBankAccount(
                     "savings",
                     mulDivFloor(revenue, 15 * (7 * RandDen + 6 * r),
                                 1000 * RandDen),
                     tape, pos + 1)
            [] e.kind = "credit" ->
                 LET limit == IF e.i = 0
                              THEN mulDivFloor(revenue, 5, 100)
                              ELSE mulDivFloor(revenue, 2, 100)
                 IN  generateCreditCard(limit, 0 - floorScaled(limit, 3, 4, r),
                                        tape, pos + 1)
            [] e.kind = "investment" ->
                 generateInvestmentAccount(
                     investmentTypes[(e.i % Len(investmentTypes)) + 1],
                     floorScaled(revenue, 5, 10, r), tape, pos + 1)
            [] e.kind = "loan" ->
                 LET loanType == loanTypes[(e.i % Len(loanTypes)) + 1]
                     balance ==
                       CASE loanType = "line of credit" ->
                              0 - floorScaled(revenue, 1, 3, r)
                         [] loanType = "commercial" ->
                              0 - floorScaled(revenue, 5, 10, r)
                         [] loanType = "construction" ->
                              0 - floorScaled(revenue, 3, 7, r)
                         [] OTHER ->
                              0 - floorScaled(revenue, 10, 20, r)
                 IN  generateLoanAccount(loanType, balance, tape, pos + 1)
    IN  [account |-> made.account, draws |-> 1 + made.draws]

RECURSIVE generateAccountsOfPlan(_, _, _, _)
\* accounts.push(...) for every iteration of `plan`, threading the draws.
generateAccountsOfPlan(plan, revenue, tape, pos) ==
    IF plan = <<>> THEN [accounts |-> <<>>, draws |-> 0]
    ELSE LET first == generateAccountOfPlan(Head(plan), revenue, tape, pos)
             rest == generateAccountsOfPlan(Tail(plan), revenue, tape,
                                            pos + first.draws)
         IN  [accounts |-> <<first.account>> \o rest.accounts,
              draws |-> first.draws + rest.draws]

\* const annualRevenue = profile.annual_revenue || 1000000
annualRevenueOrDefault(profile) ==
    IF profile.annual_revenue # 0 /\ profile.annual_revenue # NaN
    THEN profile.annual_revenue
    ELSE 1000000

\* Mutation of generateAccountSet: the loan loop is missing.
generateAccountSetWithoutLoans(profile, tape, pos) ==
    generateAccountsOfPlan(accountPlan(sizeToAccountCount(profile.company_size)),
                           annualRevenueOrDefault(profile), tape, pos)

\* account-generator.ts:222-306
generateAccountSet(profile, tape, pos) ==
    LET d == sizeToAccountCount(profile.company_size)
    IN  generateAccountsOfPlan(accountPlan(d) \o loanPlan(d),
                               annualRevenueOrDefault(profile), tape, pos)

----------------------------------------------------------------------------
(* Transaction generator (src/lib/generators/transaction-generator.ts) *)

\* config.ts
COMMON_VENDORS ==
    << "Amazon Business", "Staples", "Office Depot", "UPS", "FedEx", "USPS",
       "Microsoft 365", "Google Workspace", "QuickBooks", "Zoom", "Adobe",
       "Verizon", "AT&T", "Comcast Business", "Electric Company",
       "Water Utility", "Commercial Rent", "Janitorial Services",
       "City Business License", "State Filing Fee", "HR Software",
       "Payroll Services", "Health Insurance", "Office Snacks",
       "Coffee Service", "IT Support", "Cybersecurity Services",
       "Legal Services", "Accounting Services" >>

\* config.ts; only the industries of IndustryInputs are listed, every other
\* key gives the empty list as an unknown industry does.
INDUSTRY_VENDORS(industry) ==
    IF industry = "Technology"
    THEN << "AWS", "Microsoft Azure", "Google Cloud", "Adobe Creative Cloud",
            "Slack", "GitHub", "JetBrains", "Digital Ocean", "Mailchimp",
            "Asana", "Atlassian", "MongoDB Atlas", "Heroku", "Cloudflare",
            "Twilio", "SendGrid", "New Relic", "DataDog", "Docker" >>
    ELSE << >>

depositSources ==
    << "Customer Payment", "Client Deposit", "Invoice Payment",
       "Wire Transfer", "ACH Deposit", "Check Deposit", "Square Transfer",
       "Stripe Payout", "PayPal Transfer", "Refund", "Interest Payment" >>

\* String.prototype.includes on the merchant names above: the pairs
\* <<name, part>> for which name.includes(part) is true, over the parts the
\* generator searches for.
Includes ==
    { << "AWS", "AWS" >>, << "Microsoft Azure", "Azure" >>,
      << "Google Cloud", "Google Cloud" >>, << "Heroku", "Heroku" >>,
      << "GitHub", "GitHub" >>, << "Slack", "Slack" >>,
      << "Microsoft 365", "Microsoft 365" >>,
      << "Google Workspace", "Google Workspace" >>, << "Zoom", "Zoom" >>,
      << "Adobe", "Adobe" >>, << "Adobe Creative Cloud", "Adobe" >>,
      << "Staples", "Staples" >>, << "Office Depot", "Office Depot" >>,
      << "Amazon Business", "Amazon Business" >>, << "UPS", "UPS" >>,
      << "USPS", "USPS" >>, << "FedEx", "FedEx" >>,
      << "Electric Company", "Electric" >>, << "Water Utility", "Water" >>,
      << "Verizon", "Verizon" >>, << "AT&T", "AT&T" >>,
      << "Comcast Business", "Comcast" >>, << "Commercial Rent", "Rent" >>,
      << "Legal Services", "Legal" >>, << "Accounting Services", "Accounting" >>,
      << "Health Insurance", "Insurance" >>, << "Health Insurance", "Health" >> }

includes(name, part) == << name, part >> \in Includes

includesAny(name, parts) == \E part \in parts : includes(name, part)

\* transaction-generator.ts:360-466
determineCategories(merchantName) ==
    CASE includesAny(merchantName, { "AWS", "Azure", "Google Cloud", "Heroku",
                                     "GitHub", "Slack" }) ->
           << << "Technology", "Software", "Cloud Services" >>, "10000000" >>
      [] includesAny(merchantName, { "Microsoft 365", "Google Workspace",
                                     "Zoom", "Adobe" }) ->
           << << "Technology", "Software", "Productivity" >>, "10100000" >>
      [] includesAny(merchantName, { "Facebook Ads", "Google Ads",
                                     "Instagram Ads", "LinkedIn" }) ->
           << << "Business Services", "Advertising", "Digital Marketing" >>,
              "13000000" >>
      [] includesAny(merchantName, { "Staples", "Office Depot",
                                     "Amazon Business" }) ->
           << << "Shops", "Office Supplies" >>, "19043000" >>
      [] includesAny(merchantName, { "UPS", "FedEx", "USPS" }) ->
           << << "Business Services", "Shipping", "Courier" >>, "13004000" >>
      [] includesAny(merchantName, { "Electric", "Water", "Gas" }) ->
           << << "Service", "Utilities" >>, "18000000" >>
      [] includesAny(merchantName, { "Verizon", "AT&T", "Comcast", "Internet" }) ->
           << << "Service", "Telecommunications" >>, "18009000" >>
      [] includesAny(merchantName, { "Rent", "Lease", "Facilities" }) ->
           << << "Business Services", "Real Estate" >>, "13011000" >>
      [] includesAny(merchantName, { "Legal", "Accounting", "Consulting" }) ->
           << << "Business Services", "Professional Services" >>, "13005000" >>
      [] includes(merchantName, "Insurance") ->
           << << "Business Services", "Insurance" >>, "13001000" >>
      [] includesAny(merchantName, { "Airlines", "Hotel", "Air", "Uber",
                                     "Lyft" }) ->
           << << "Travel", "Business Travel" >>, "22001000" >>
      [] OTHER -> << << "Business Services", "Other" >>, "13000000" >>

\* [...industrySpecificVendors] of transaction-generator.ts:205 throws a
\* TypeError when INDUSTRY_VENDORS[industry] is an inherited function, which
\* `|| []` does not replace.
vendorsNotIterable(industry) == industry \in ObjectPrototypeKeys

\* transaction-generator.ts:200-209
getRealisticMerchant(industry, r) ==
    LET allVendors == INDUSTRY_VENDORS(industry) \o COMMON_VENDORS
    IN  allVendors[floorRandomTimes(r, Len(allVendors)) + 1]

\* Amounts are whole numbers of 1/AmountUnit dollars, which holds every
\* amount the generator computes from the draws k/RandDen exactly.
AmountUnit == 100 * RandDen * RandDen

\* base + Math.random() * span, in amount units.
amountOf(base, span, k) == (base * RandDen + k * span) * 100 * RandDen

depositSizes ==
    << <<500, 5000>>, <<1000, 20000>>, <<5000, 50000>>, <<10000, 200000>>,
       <<50000, 500000>> >>

paymentSizes ==
    << <<50, 2000>>, <<100, 5000>>, <<500, 20000>>, <<1000, 50000>>,
       <<5000, 100000>> >>

\* Math.floor((Date.now() - d.getTime()) / 86400000) at day granularity.
daysAgoOf(date) == 0 - date

\* The window argument of generateDateInRange (transaction-generator.ts:
\* 701-704): a date that is not passed gives 730 resp. 0 days ago.
DefaultStartDaysAgo == 730

startDaysAgoOf(opts) ==
    IF opts.start_date # Null THEN daysAgoOf(opts.start_date[1])
    ELSE DefaultStartDaysAgo

endDaysAgoOf(opts) ==
    IF opts.end_date # Null THEN daysAgoOf(opts.end_date[1]) ELSE 0

\* transaction-generator.ts:38-45: the local calendar day of the date made.
generateDateInRange(startDaysAgo, endDaysAgo, r) ==
    LET daysAgo == endDaysAgo + floorRandomTimes(r, startDaysAgo - endDaysAgo)
    IN  0 - daysAgo

\* date.toISOString().split('T')[0] of a local midnight: the UTC calendar
\* day, which is the day before in a time zone east of Greenwich.
formatPlaidDate(localDay, east) == IF east THEN localDay - 1 ELSE localDay

\* transaction-generator.ts:20-30; IdLength draws.
generateTransactionId(tape, pos) == randomId(tape, pos)

\* Math.random() < p/100 for the draw k/RandDen.
randomBelow(k, p) == 100 * k < p * RandDen

\* transaction-generator.ts:477-522.  The result carries the number of
\* draws consumed.
generateBaseTransaction(account, merchantName, amount, date, pending, east, tape, pos) ==
    LET cat == determineCategories(merchantName)
        hasAuthDate == ~pending /\ randomBelow(mathRandom(tape, pos, 1), 70)
        n1 == IF pending THEN 0 ELSE 1
        authDate ==
            IF hasAuthDate
            THEN << formatPlaidDate(
                        date - (1 + floorRandomTimes(
                                        mathRandom(tape, pos, n1 + 1), 2)),
                        east) >>
            ELSE Null
        n2 == n1 + (IF hasAuthDate THEN 1 ELSE 0)
    IN  [tx |->
            [transaction_id |-> generateTransactionId(tape, pos + n2),
             account_id |-> account.account_id,
             amount |-> amount,
             category |-> cat[1],
             category_id |-> cat[2],
             pending |-> pending,
             merchant_name |-> merchantName,
             date |-> formatPlaidDate(date, east),
             authorized_date |-> authDate],
         draws |-> n2 + IdLength]

\* transaction-generator.ts:531-584
generateDepositTransaction(account, profile, date, east, tape, pos) ==
    LET size == depositSizes[getSizeIndex(profile.company_size) + 1]
        amount == amountOf(size[1], size[2] - size[1], mathRandom(tape, pos, 1))
        merchantName ==
            depositSources[floorRandomTimes(mathRandom(tape, pos, 2),
                                            Len(depositSources)) + 1]
        base == generateBaseTransaction(account, merchantName, amount, date,
                                        FALSE, east, tape, pos + 2)
    IN  [tx |-> base.tx, draws |-> 2 + base.draws]

\* transaction-generator.ts:594-649
generatePaymentTransaction(account, profile, date, east, tape, pos) ==
    LET merchantName == getRealisticMerchant(profile.industry,
                                             mathRandom(tape, pos, 1))
        size == paymentSizes[getSizeIndex(profile.company_size) + 1]
        minPayment == size[1]
        maxPayment == size[2]
        k == mathRandom(tape, pos, 2)
        amount ==
          CASE includesAny(merchantName, { "Rent", "Lease" }) ->
                 0 - amountOf(minPayment * 3, maxPayment * 2 - minPayment * 3, k)
            [] includesAny(merchantName, { "AWS", "Azure", "Google Cloud" }) ->
                 0 - amountOf((minPayment * 3) \div 2,
                              maxPayment - (minPayment * 3) \div 2, k)
            [] includesAny(merchantName, { "Insurance", "Health" }) ->
                 0 - amountOf(minPayment * 2, maxPayment - minPayment * 2, k)
            [] OTHER -> 0 - amountOf(minPayment, maxPayment - minPayment, k)
        isPending == randomBelow(mathRandom(tape, pos, 3), 5)
        base == generateBaseTransaction(account, merchantName, amount, date,
                                        isPending, east, tape, pos + 3)
    IN  [tx |-> base.tx, draws |-> 3 + base.draws]

\* Mutation of depositoryAccountsOf: credit accounts count as depository.
depositoryAccountsOfWithCredit(accts) ==
    SelectSeq(accts, LAMBDA a : a.type = "depository" \/ a.type = "credit")

depositoryAccountsOf(accts) == SelectSeq(accts, LAMBDA a : a.type = "depository")

paymentAccountsOf(accts) ==
    SelectSeq(accts, LAMBDA a : a.type = "depository" \/ a.type = "credit")

\* options.addedCount || baseCounts[sizeIndex]
baseCountOf(addedCount, companySize) ==
    IF addedCount # 0 THEN addedCount ELSE baseCounts[getSizeIndex(companySize) + 1]

\* Math.floor(baseCount * (0.2 + Math.random() * 0.1))
\* Mutation of depositCountOf: between five and six tenths of the base count.
depositCountOfHalf(baseCount, r) == (baseCount * (5 * RandDen + r)) \div (10 * RandDen)

depositCountOf(baseCount, r) == (baseCount * (2 * RandDen + r)) \div (10 * RandDen)

\* Mutation of paymentCountOf: eight tenths of the base count, whatever
\* the number of deposits drawn.
paymentCountOfFixedShare(baseCount, depositCount) == (baseCount * 8) \div 10

\* const paymentCount = baseCount - depositCount
paymentCountOf(baseCount, depositCount) == baseCount - depositCount

\* options.modifiedCount || Math.floor(baseCount * 0.05)
modifiedCountOf(modifiedCount, baseCount) ==
    IF modifiedCount # 0 THEN modifiedCount ELSE (baseCount * 5) \div 100

\* options.removedCount || Math.floor(baseCount * 0.02)
removedCountOf(removedCount, baseCount) ==
    IF removedCount # 0 THEN removedCount ELSE (baseCount * 2) \div 100

\* One iteration of the deposit loop (kind "deposit") or of the payment
\* loop (kind "payment"): the account is drawn from `pool`, the date from the
\* window of the options, then the transaction is generated.
generateOne(kind, pool, profile, opts, east, tape, pos) ==
    LET account == pool[floorRandomTimes(mathRandom(tape, pos, 1), Len(pool)) + 1]
        date == generateDateInRange(startDaysAgoOf(opts), endDaysAgoOf(opts),
                                    mathRandom(tape, pos, 2))
        made == IF kind = "deposit"
                THEN generateDepositTransaction(account, profile, date, east,
                                                tape, pos + 2)
                ELSE generatePaymentTransaction(account, profile, date, east,
                                                tape, pos + 2)
    IN  [tx |-> made.tx, draws |-> 2 + made.draws]

RECURSIVE generateLoop(_, _, _, _, _, _, _, _)
\* `count` iterations of one of the two loops, threading the draws.
generateLoop(kind, count, pool, profile, opts, east, tape, pos) ==
    IF count <= 0 THEN [txs |-> <<>>, draws |-> 0]
    ELSE LET first == generateOne(kind, pool, profile, opts, east, tape, pos)
             rest == generateLoop(kind, count - 1, pool, profile, opts, east,
                                  tape, pos + first.draws)
         IN  [txs |-> <<first.tx>> \o rest.txs,
              draws |-> first.draws + rest.draws]

RECURSIVE entriesFromDateDown(_, _, _)
\* The entries of s dated d, then those dated d - 1, ... down to `lowest`,
\* each group in the order it has in s.
entriesFromDateDown(s, d, lowest) ==
    IF d < lowest THEN <<>>
    ELSE SelectSeq(s, LAMBDA t : t.date = d)
            \o entriesFromDateDown(s, d - 1, lowest)

\* added.sort((a, b) => new Date(b.date) - new Date(a.date)): a stable sort,
\* so entries of one date keep their order.
sortByDateDesc(s) ==
    IF s = <<>> THEN <<>>
    ELSE LET dates == { s[i].date : i \in 1 .. Len(s) }
             newest == CHOOSE d \in dates : \A e \in dates : e <= d
             oldest == CHOOSE d \in dates : \A e \in dates : d <= e
         IN  entriesFromDateDown(s, newest, oldest)

\* Mutation of sortAdded: the list is left in generation order.
sortAddedSkipped(s) == s

\* transaction-generator.ts:720
sortAdded(s) == sortByDateDesc(s)

\* Mutation of scaleAmount: the amount is doubled.
scaleAmountDoubled(amount, k) == 2 * amount

\* transactionToModify.amount * (0.95 + Math.random() * 0.1); every amount
\* of added is a multiple of 100 * RandDen amount units.
scaleAmount(amount, k) == (amount \div (100 * RandDen)) * (95 * RandDen + 10 * k)

\* Mutation of spreadCopy: the entry of added itself, not a copy of it.
entryItself(add, i) == [fields |-> add[i], target |-> i]

\* { ...added[i] }: a new object with the fields of added[i].  `target` is
\* the position in added of the object that later assignments write to, 0
\* for an object that is no entry of added.
spreadCopy(add, i) == [fields |-> add[i], target |-> 0]

\* One iteration of the loop of transaction-generator.ts:727-746: a shallow
\* copy of a randomly chosen entry of added, changed according to modType.
\* The result carries the number of draws consumed and the added list as
\* the assignments leave it.
modifyOne(add, tape, pos) ==
    LET transactionToModify ==
            spreadCopy(add, floorRandomTimes(mathRandom(tape, pos, 1), Len(add)) + 1)
        t == transactionToModify.fields
        modType == floorRandomTimes(mathRandom(tape, pos, 2), 3)
        cat == determineCategories(t.merchant_name)
        changed ==
          CASE modType = 0 ->
                 [t EXCEPT !.amount = scaleAmount(t.amount, mathRandom(tape, pos, 3))]
            [] modType = 1 -> [t EXCEPT !.pending = ~t.pending]
            [] OTHER -> [t EXCEPT !.category = cat[1], !.category_id = cat[2]]
    IN  [tx |-> changed,
         draws |-> IF modType = 0 THEN 3 ELSE 2,
         added |-> IF transactionToModify.target = 0 THEN add
                   ELSE [add EXCEPT ![transactionToModify.target] = changed]]

RECURSIVE modifyLoop(_, _, _, _)
\* `count` iterations, threading the draws and the added list.
modifyLoop(count, add, tape, pos) ==
    IF count <= 0 THEN [txs |-> <<>>, draws |-> 0, added |-> add]
    ELSE LET first == modifyOne(add, tape, pos)
             rest == modifyLoop(count - 1, first.added, tape, pos + first.draws)
         IN  [txs |-> <<first.tx>> \o rest.txs,
              draws |-> first.draws + rest.draws,
              added |-> rest.added]

----------------------------------------------------------------------------
(* Transaction generator with merchant styles (src/unnamed/part_006) *)

\* The merchant names of MERCHANT_NAME_STYLES in the order Object.entries
\* and the inner loop of formatMerchantDetails visit them.
MERCHANT_NAME_STYLES ==
    << "Uber Eats", "DoorDash", "Grubhub", "Starbucks", "Chipotle",
       "McDonald's", "Uber", "Lyft", "Delta", "American Airlines",
       "Southwest", "United", "Marriott", "Hilton", "GitHub", "Slack",
       "Zoom", "Google", "Microsoft", "Adobe", "AWS", "DigitalOcean",
       "Heroku", "AT&T", "Verizon", "Comcast", "PG&E", "Edison", "Water",
       "Facebook Ads", "Google Ads", "LinkedIn Ads", "Twitter Ads",
       "Mailchimp", "Hubspot", "Staples", "Office Depot", "Amazon Business",
       "UPS", "FedEx", "USPS", "State Farm", "Geico", "Blue Cross", "Kaiser",
       "Aetna", "Fidelity", "Stripe", "PayPal", "Square", "ACH Deposit",
       "Wire Transfer", "Venmo" >>

\* The deposit sources of part_006:746-759.
styledDepositSources ==
    << "Client Payment", "Client Deposit", "Invoice Payment",
       "Wire Transfer", "Stripe", "PayPal", "Square", "ACH Deposit", "Venmo",
       "Accounts Receivable", "Contract Payment", "Refund" >>

\* String.prototype.includes over the vendors, the deposit sources and the
\* style names: the pairs <<name, part>> for which name.includes(part) is
\* true, over the parts formatMerchantDetails and determineCategories of
\* part_006 search for.
StyledIncludes ==
    { << "AWS", "AWS" >>, << "Microsoft Azure", "Microsoft" >>,
      << "Microsoft Azure", "Azure" >>, << "Google Cloud", "Google" >>,
      << "Google Cloud", "Google Cloud" >>,
      << "Adobe Creative Cloud", "Adobe" >>, << "Slack", "Slack" >>,
      << "GitHub", "GitHub" >>, << "Digital Ocean", "Digital Ocean" >>,
      << "Mailchimp", "Mailchimp" >>, << "Heroku", "Heroku" >>,
      << "Amazon Business", "Amazon Business" >>, << "Staples", "Staples" >>,
      << "Office Depot", "Office Depot" >>, << "UPS", "UPS" >>,
      << "FedEx", "FedEx" >>, << "USPS", "USPS" >>,
      << "Microsoft 365", "Microsoft" >>, << "Google Workspace", "Google" >>,
      << "Zoom", "Zoom" >>, << "Adobe", "Adobe" >>,
      << "Verizon", "Verizon" >>, << "AT&T", "AT&T" >>,
      << "Comcast Business", "Comcast" >>,
      << "Electric Company", "Electric" >>, << "Water Utility", "Water" >>,
      << "Commercial Rent", "Rent" >>, << "Health Insurance", "Insurance" >>,
      << "Legal Services", "Legal" >>,
      << "Accounting Services", "Accounting" >>,
      << "Wire Transfer", "Wire Transfer" >>, << "Stripe", "Stripe" >>,
      << "PayPal", "PayPal" >>, << "Square", "Square" >>,
      << "ACH Deposit", "ACH Deposit" >>, << "Venmo", "Venmo" >>,
      << "Uber Eats", "Uber Eats" >>, << "Uber Eats", "Uber" >>,
      << "DoorDash", "DoorDash" >>, << "Grubhub", "Grubhub" >>,
      << "Starbucks", "Starbucks" >>, << "Chipotle", "Chipotle" >>,
      << "McDonald's", "McDonald's" >>, << "Uber", "Uber" >>,
      << "Lyft", "Lyft" >>, << "Delta", "Delta" >>,
      << "American Airlines", "American Airlines" >>,
      << "American Airlines", "Airlines" >>,
      << "American Airlines", "Air" >>, << "Southwest", "Southwest" >>,
      << "United", "United" >>, << "Marriott", "Marriott" >>,
      << "Hilton", "Hilton" >>, << "Google", "Google" >>,
      << "Microsoft", "Microsoft" >>, << "DigitalOcean", "DigitalOcean" >>,
      << "Comcast", "Comcast" >>, << "PG&E", "PG&E" >>,
      << "Edison", "Edison" >>, << "Water", "Water" >>,
      << "Facebook Ads", "Facebook Ads" >>, << "Google Ads", "Google" >>,
      << "Google Ads", "Google Ads" >>, << "LinkedIn Ads", "LinkedIn Ads" >>,
      << "LinkedIn Ads", "LinkedIn" >>, << "Twitter Ads", "Twitter Ads" >>,
      << "Hubspot", "Hubspot" >>, << "State Farm", "State Farm" >>,
      << "Geico", "Geico" >>, << "Blue Cross", "Blue Cross" >>,
      << "Kaiser", "Kaiser" >>, << "Aetna", "Aetna" >>,
      << "Fidelity", "Fidelity" >> }

\* lowerMerchant.includes(part) over the vendors, for the parts
\* generatePaymentTransaction of part_006 searches for.
LowerIncludes ==
    { << "AWS", "aws" >>, << "Microsoft Azure", "azure" >>,
      << "Microsoft Azure", "microsoft" >>,
      << "Google Cloud", "google cloud" >>,
      << "Adobe Creative Cloud", "adobe" >>, << "Slack", "slack" >>,
      << "GitHub", "github" >>, << "Mailchimp", "mailchimp" >>,
      << "Heroku", "heroku" >>, << "Amazon Business", "amazon" >>,
      << "Staples", "staples" >>, << "Office Depot", "office" >>,
      << "Microsoft 365", "microsoft" >>, << "Zoom", "zoom" >>,
      << "Adobe", "adobe" >>, << "Verizon", "verizon" >>,
      << "AT&T", "at&t" >>, << "Comcast Business", "comcast" >>,
      << "Electric Company", "electric" >>, << "Water Utility", "water" >>,
      << "Office Snacks", "office" >> }

styledIncludesAny(name, parts) == \E part \in parts : << name, part >> \in StyledIncludes

lowerIncludesAny(name, parts) == \E part \in parts : << name, part >> \in LowerIncludes

\* part_006:1048-1096, the merchantName of the result: the first style name
\* the merchant name includes, or the name itself.
formatMerchantDetails(merchantName) ==
    LET matching == { i \in DOMAIN MERCHANT_NAME_STYLES :
                        << merchantName, MERCHANT_NAME_STYLES[i] >> \in StyledIncludes }
    IN  IF matching = {} THEN merchantName
        ELSE MERCHANT_NAME_STYLES[CHOOSE i \in matching : \A j \in matching : i <= j]

\* Mutation of styledDetermineCategories: the default category for every name.
styledDetermineCategoriesDefault(merchantName) ==
    << << "Business Services", "Other" >>, "13000000" >>

\* part_006:459-618, as <<categories, categoryId>>.
styledDetermineCategories(merchantName) ==
    IF styledIncludesAny(merchantName,
          { "Restaurant", "Dining", "Food", "Starbucks", "Chipotle",
            "McDonald's", "Uber Eats", "DoorDash" })
    THEN << << "Food and Drink", "Restaurants" >>, "13005000" >>
    ELSE IF styledIncludesAny(merchantName,
          { "AWS", "Azure", "Google Cloud", "Digital Ocean", "Heroku" })
    THEN << << "Business Services", "Cloud Computing" >>, "10002000" >>
    ELSE IF styledIncludesAny(merchantName,
          { "GitHub", "Slack", "Zoom", "Adobe", "Microsoft" })
    THEN << << "Technology", "Software", "Productivity" >>, "10100000" >>
    ELSE IF styledIncludesAny(merchantName,
          { "Facebook Ads", "Google Ads", "Instagram Ads", "LinkedIn" })
    THEN << << "Business Services", "Advertising", "Digital Marketing" >>, "13000000" >>
    ELSE IF styledIncludesAny(merchantName,
          { "Staples", "Office Depot", "Amazon Business" })
    THEN << << "Shops", "Office Supplies" >>, "19043000" >>
    ELSE IF styledIncludesAny(merchantName,
          { "UPS", "FedEx", "USPS" })
    THEN << << "Business Services", "Shipping", "Courier" >>, "13004000" >>
    ELSE IF styledIncludesAny(merchantName,
          { "Electric", "Water", "Gas" })
    THEN << << "Service", "Utilities" >>, "18000000" >>
    ELSE IF styledIncludesAny(merchantName,
          { "Verizon", "AT&T", "Comcast", "Internet" })
    THEN << << "Service", "Telecommunications" >>, "18009000" >>
    ELSE IF styledIncludesAny(merchantName,
          { "Rent", "Lease", "Facilities" })
    THEN << << "Business Services", "Real Estate" >>, "13011000" >>
    ELSE IF styledIncludesAny(merchantName,
          { "Legal", "Accounting", "Consulting" })
    THEN << << "Business Services", "Professional Services" >>, "13005000" >>
    ELSE IF styledIncludesAny(merchantName,
          { "Insurance" })
    THEN << << "Business Services", "Insurance" >>, "13001000" >>
    ELSE IF styledIncludesAny(merchantName,
          { "Airlines", "Hotel", "Air", "Uber", "Lyft" })
    THEN << << "Travel", "Business Travel" >>, "22001000" >>
    ELSE << << "Business Services", "Other" >>, "13000000" >>

\* part_006:625-633 for a size whose entry is a number: the index of the
\* tier, and 0 for a name that is no key (`|| 0`).
styledGetSizeIndex(companySize) ==
    IF companySize \in SeqToSet(COMPANY_SIZE_NAMES)
    THEN (CHOOSE i \in 1 .. Len(COMPANY_SIZE_NAMES) :
              COMPANY_SIZE_NAMES[i] = companySize) - 1
    ELSE 0

\* For an inherited name the lookup of part_006:626-632 is a function, which
\* `|| 0` does not replace; depositSizes[sizeIndex] and ranges[sizeIndex] are
\* then undefined and their destructuring throws a TypeError.
sizeRangeNotIterable(companySize) == companySize \in ObjectPrototypeKeys

UndefinedNotIterableError == "TypeError: undefined is not iterable"

\* part_006:732-738
styledDepositSizes ==
    << <<300, 2000>>, <<500, 3000>>, <<1000, 5000>>, <<2000, 8000>>,
       <<5000, 15000>> >>

\* part_006:818-867, <<min, max>> by merchant type and size index.
paymentRanges(merchantType) ==
    CASE merchantType = "software" ->
           << <<-50, -200>>, <<-100, -500>>, <<-200, -1000>>,
              <<-500, -3000>>, <<-1000, -8000>> >>
      [] merchantType = "cloud" ->
           << <<-100, -500>>, <<-200, -1500>>, <<-1000, -5000>>,
              <<-3000, -15000>>, <<-8000, -50000>> >>
      [] merchantType = "office" ->
           << <<-30, -200>>, <<-50, -500>>, <<-100, -1000>>,
              <<-300, -2000>>, <<-500, -5000>> >>
      [] merchantType = "utilities" ->
           << <<-50, -300>>, <<-100, -500>>, <<-200, -800>>,
              <<-300, -1500>>, <<-500, -3000>> >>
      [] merchantType = "marketing" ->
           << <<-100, -500>>, <<-300, -2000>>, <<-1000, -5000>>,
              <<-2000, -10000>>, <<-5000, -30000>> >>
      [] OTHER ->
           << <<-20, -200>>, <<-50, -500>>, <<-100, -1000>>,
              <<-200, -2000>>, <<-500, -5000>> >>

\* part_006:870-917
merchantTypeOf(merchantName) ==
    IF lowerIncludesAny(merchantName,
          { "aws", "azure", "google cloud", "digitalocean", "heroku" })
    THEN "cloud"
    ELSE IF lowerIncludesAny(merchantName,
          { "github", "slack", "zoom", "adobe", "microsoft" })
    THEN "software"
    ELSE IF lowerIncludesAny(merchantName,
          { "staples", "office", "amazon" })
    THEN "office"
    ELSE IF lowerIncludesAny(merchantName,
          { "electric", "pg&e", "at&t", "verizon", "comcast", "water" })
    THEN "utilities"
    ELSE IF lowerIncludesAny(merchantName,
          { "facebook", "google ads", "instagram", "linkedin", "twitter",
            "mailchimp", "hubspot" })
    THEN "marketing"
    ELSE "default"

\* Math.round(n / d) for d > 0.
mathRound(n, d) == (2 * n + d) \div (2 * d)

\* part_006:765-791: the deposit amount before rounding, as the numerator
\* of a fraction with denominator 10 * RandDen, and the draws it consumes.
styledDepositAmount(businessModel, minDeposit, maxDeposit, tape, pos) ==
    LET k1 == mathRandom(tape, pos, 1)
        k2 == mathRandom(tape, pos, 2)
    IN  IF businessModel \in { "E-commerce", "SaaS" }
        THEN [numerator |->
                 IF randomBelow(k1, 70)
                 THEN 5 * minDeposit * RandDen + 3 * k2 * maxDeposit
                 ELSE 10 * minDeposit * RandDen + 10 * k2 * (maxDeposit - minDeposit),
              draws |-> 2]
        ELSE IF businessModel \in { "Consulting", "Agency" }
        THEN [numerator |->
                 IF randomBelow(k1, 30)
                 THEN 3 * minDeposit * RandDen + 7 * k2 * minDeposit
                 ELSE 8 * minDeposit * RandDen
                         + k2 * (10 * maxDeposit - 8 * minDeposit),
              draws |-> 2]
        ELSE [numerator |->
                 10 * minDeposit * RandDen + 10 * k1 * (maxDeposit - minDeposit),
              draws |-> 1]

\* Mutation of styledGenerateBaseTransaction: the categories are those of the
\* merchant name as it is passed in.
styledGenerateBaseTransactionEarlyCategories(account, merchantName, amount, date, east, tape, pos) ==
    LET pending == randomBelow(mathRandom(tape, pos, 1), 10)
        n1 == IF pending THEN 1 ELSE 2
        daysBeforeAuth ==
            IF pending THEN 0 ELSE floorRandomTimes(mathRandom(tape, pos, 2), 3)
        cat == styledDetermineCategories(merchantName)
    IN  [tx |->
            [transaction_id |-> generateTransactionId(tape, pos + n1),
             account_id |-> account.account_id,
             amount |-> amount,
             category |-> cat[1],
             category_id |-> cat[2],
             pending |-> pending,
             merchant_name |-> formatMerchantDetails(merchantName),
             date |-> formatPlaidDate(date, east),
             authorized_date |-> << formatPlaidDate(date - daysBeforeAuth, east) >>],
         draws |-> n1 + IdLength]

\* part_006:644-717 with a profile.  The result carries the number of draws
\* consumed; the draws spent on the description, the counterparty, the
\* location and the payment meta are not taken from the tape.
styledGenerateBaseTransaction(account, merchantName, amount, date, east, tape, pos) ==
    LET pending == randomBelow(mathRandom(tape, pos, 1), 10)
        n1 == IF pending THEN 1 ELSE 2
        daysBeforeAuth ==
            IF pending THEN 0 ELSE floorRandomTimes(mathRandom(tape, pos, 2), 3)
        formatted == formatMerchantDetails(merchantName)
        cat == styledDetermineCategories(formatted)
    IN  [tx |->
            [transaction_id |-> generateTransactionId(tape, pos + n1),
             account_id |-> account.account_id,
             amount |-> amount,
             category |-> cat[1],
             category_id |-> cat[2],
             pending |-> pending,
             merchant_name |-> formatted,
             date |-> formatPlaidDate(date, east),
             authorized_date |-> << formatPlaidDate(date - daysBeforeAuth, east) >>],
         draws |-> n1 + IdLength]

\* Mutation of styledRoundedAmount: Math.floor of the amount less one dollar.
styledRoundedAmountBelow(numerator) ==
    ((numerator \div (10 * RandDen)) - 300) * AmountUnit

\* Math.round(amount) of part_006:794, in amount units.
styledRoundedAmount(numerator) == mathRound(numerator, 10 * RandDen) * AmountUnit

\* part_006:726-800
styledGenerateDepositTransaction(account, profile, date, east, tape, pos) ==
    LET size == styledDepositSizes[styledGetSizeIndex(profile.company_size) + 1]
        merchantName ==
            styledDepositSources[floorRandomTimes(mathRandom(tape, pos, 1),
                                                  Len(styledDepositSources)) + 1]
        drawn == styledDepositAmount(profile.business_model, size[1], size[2],
                                     tape, pos + 1)
        base == styledGenerateBaseTransaction(account, merchantName,
                                              styledRoundedAmount(drawn.numerator),
                                              date, east, tape, pos + 1 + drawn.draws)
    IN  [tx |-> base.tx, draws |-> 1 + drawn.draws + base.draws]

\* part_006:808-933
styledGeneratePaymentTransaction(account, merchantName, date, profile, east, tape, pos) ==
    LET ranges == paymentRanges(merchantTypeOf(merchantName))
        range == ranges[styledGetSizeIndex(profile.company_size) + 1]
        amount == amountOf(range[1], range[2] - range[1], mathRandom(tape, pos, 1))
        base == styledGenerateBaseTransaction(account, merchantName, amount, date,
                                              east, tape, pos + 1)
    IN  [tx |-> base.tx, draws |-> 1 + base.draws]

\* One iteration of the loops of part_006:974-993: the account, the date,
\* for a payment the merchant, and the transaction.
styledGenerateOne(kind, pool, profile, opts, east, tape, pos) ==
    LET account == pool[floorRandomTimes(mathRandom(tape, pos, 1), Len(pool)) + 1]
        date == generateDateInRange(startDaysAgoOf(opts), endDaysAgoOf(opts),
                                    mathRandom(tape, pos, 2))
        made == IF kind = "deposit"
                THEN styledGenerateDepositTransaction(account, profile, date, east,
                                                      tape, pos + 2)
                ELSE styledGeneratePaymentTransaction(
                         account,
                         getRealisticMerchant(profile.industry,
                                              mathRandom(tape, pos, 3)),
                         date, profile, east, tape, pos + 3)
    IN  [tx |-> made.tx,
         draws |-> (IF kind = "deposit" THEN 2 ELSE 3) + made.draws]

RECURSIVE styledGenerateLoop(_, _, _, _, _, _, _, _)
\* `count` iterations of one of the two loops, threading the draws.
styledGenerateLoop(kind, count, pool, profile, opts, east, tape, pos) ==
    IF count <= 0 THEN [txs |-> <<>>, draws |-> 0]
    ELSE LET first == styledGenerateOne(kind, pool, profile, opts, east, tape, pos)
             rest == styledGenerateLoop(kind, count - 1, pool, profile, opts,
                                        east, tape, pos + first.draws)
         IN  [txs |-> <<first.tx>> \o rest.txs,
              draws |-> first.draws + rest.draws]

\* One iteration of the loop of part_006:1003-1022.
styledModifyOne(add, tape, pos) ==
    LET transactionToModify ==
            spreadCopy(add, floorRandomTimes(mathRandom(tape, pos, 1), Len(add)) + 1)
        t == transactionToModify.fields
        modType == floorRandomTimes(mathRandom(tape, pos, 2), 3)
        cat == styledDetermineCategories(t.merchant_name)
        changed ==
          CASE modType = 0 ->
                 [t EXCEPT !.amount = scaleAmount(t.amount, mathRandom(tape, pos, 3))]
            [] modType = 1 -> [t EXCEPT !.pending = ~t.pending]
            [] OTHER -> [t EXCEPT !.category = cat[1], !.category_id = cat[2]]
    IN  [tx |-> changed, draws |-> IF modType = 0 THEN 3 ELSE 2]

RECURSIVE styledModifyLoop(_, _, _, _)
styledModifyLoop(count, add, tape, pos) ==
    IF count <= 0 THEN [txs |-> <<>>, draws |-> 0]
    ELSE LET first == styledModifyOne(add, tape, pos)
             rest == styledModifyLoop(count - 1, add, tape, pos + first.draws)
         IN  [txs |-> <<first.tx>> \o rest.txs,
              draws |-> first.draws + rest.draws]

----------------------------------------------------------------------------
(* Orchestrator (src/lib/generators/main-generator.ts) *)

\* Mutation of missingRequired: company_size is not looked at.
missingRequiredWithoutSize(c) ==
    \/ c.company_name = <<>>
    \/ c.industry = ""
    \/ c.business_model = ""

\* main-generator.ts:33
missingRequired(c) ==
    \/ c.company_name = <<>>
    \/ c.industry = ""
    \/ c.business_model = ""
    \/ c.company_size = ""

\* Mutation of keepAccount: include_loans is tested against the wrong type.
keepAccountLoansMistyped(opts, account) ==
    /\ ~(~opts.include_deposits /\ account.type = "depository")
    /\ ~(~opts.include_payments /\ account.type = "credit")
    /\ ~(~opts.include_investments /\ account.type = "investment")
    /\ ~(~opts.include_loans /\ account.type = "investment")

\* main-generator.ts:44-50, the filter callback.
keepAccount(opts, account) ==
    /\ ~(~opts.include_deposits /\ account.type = "depository")
    /\ ~(~opts.include_payments /\ account.type = "credit")
    /\ ~(~opts.include_investments /\ account.type = "investment")
    /\ ~(~opts.include_loans /\ account.type = "loan")

filterAccounts(opts, accts) == SelectSeq(accts, LAMBDA a : keepAccount(opts, a))

\* Mutation of noAccountsLeft: off by one.
noAccountsLeftOffByOne(filtered) == Len(filtered) <= 1

\* main-generator.ts:53
noAccountsLeft(filtered) == Len(filtered) = 0

\* fullFormSchema's refinement (schema.ts): start date strictly before end date.
fullFormSchemaAccepts(opts) == opts.start_date < opts.end_date

----------------------------------------------------------------------------
(* Inputs *)

CompanyNameInputs == { <<>>, <<"Acme", "Corp">> }

IndustryInputs == { "", "Technology" }

\* A non-empty industry that is no key of the industry tables.
UnrecognizedIndustry == "Agriculture"

\* A non-empty company size that is no size tier and names a property every
\* object inherits.
InheritedSizeName == CHOOSE n \in ObjectPrototypeKeys : n = "constructor"

\* A non-empty industry that is no industry of the tables and names a
\* property every object inherits.
InheritedIndustryName == CHOOSE n \in ObjectPrototypeKeys : n = "toString"

BusinessModelInputs == { "", "SaaS" }

CompanySizeInputs == { "", "Unknown" } \cup SeqToSet(COMPANY_SIZE_NAMES)

\* annual_revenue 0 stands for the field being absent.  The requests with
\* an unrecognized industry also carry an annual_revenue of their own.
CompanyInputs ==
    [company_name : CompanyNameInputs, industry : IndustryInputs,
     business_model : BusinessModelInputs, company_size : CompanySizeInputs,
     annual_revenue : { 0 }]
    \cup
    [company_name : { <<"Acme", "Corp">> }, industry : { UnrecognizedIndustry },
     business_model : { "SaaS" },
     company_size : { "Unknown", "Medium (51-200)", InheritedSizeName },
     annual_revenue : { 123 }]
    \cup
    [company_name : { <<"Acme", "Corp">> }, industry : { InheritedIndustryName },
     business_model : { "SaaS" }, company_size : { "Startup (1-10)" },
     annual_revenue : { 0 }]

FewTransactions == CHOOSE n \in NumTransactions : \A m \in NumTransactions : n <= m

\* Requests of the smallest size with every combination of the include
\* flags, requests of the smallest size with every combination of dates, and
\* requests of every size that keep the deposit accounts and leave out
\* investments and loans, and requests of every size for credit accounts only.
OptionInputs ==
    [num_transactions : { FewTransactions },
     start_date : { 0 - MaxDaysAgo }, end_date : { 0 },
     include_deposits : BOOLEAN, include_payments : BOOLEAN,
     include_investments : BOOLEAN, include_loans : BOOLEAN]
    \cup
    [num_transactions : { FewTransactions },
     start_date : DateChoices, end_date : DateChoices,
     include_deposits : { TRUE }, include_payments : BOOLEAN,
     include_investments : { FALSE }, include_loans : { FALSE }]
    \cup
    [num_transactions : NumTransactions,
     start_date : { 0 - MaxDaysAgo }, end_date : { 0 },
     include_deposits : { TRUE }, include_payments : BOOLEAN,
     include_investments : { FALSE }, include_loans : { FALSE }]
    \cup
    [num_transactions : NumTransactions,
     start_date : { 0 - MaxDaysAgo }, end_date : { 0 },
     include_deposits : { FALSE }, include_payments : { TRUE },
     include_investments : { FALSE }, include_loans : { FALSE }]

NoProfile ==
    [company_name |-> <<>>, industry |-> "", business_model |-> "",
     company_size |-> "", annual_revenue |-> 0]

MissingDataError == "Missing required company profile data"

NoAccountsError ==
    "No accounts available. Please enable at least one account type in options."

NotIterableError == "TypeError: industrySpecificVendors is not iterable"

----------------------------------------------------------------------------
(* JSON.stringify and JSON.parse *)

\* JavaScript values, tagged by their type.  The properties of an object are
\* a sequence of <<name, value>> pairs in the order of their definition.
JsUndefined == << "undefined" >>

JsNull == << "null" >>

JsNumber(n) == << "number", n >>

JsString(s) == << "string", s >>

JsBoolean(b) == << "boolean", b >>

JsArray(elements) == << "array", elements >>

JsObject(properties) == << "object", properties >>

\* JSON texts, as the tree of their tokens.
JsonNullLiteral == << "json null" >>

RECURSIVE jsonStringify(_)
\* JSON.stringify(value, null, 2): a number that is NaN becomes null, a
\* property whose value is undefined is left out, an undefined array element
\* becomes null.  The white space of the indentation is not kept.
jsonStringify(v) ==
    CASE v[1] = "null" -> JsonNullLiteral
      [] v[1] = "number" ->
           IF v[2] = NaN THEN JsonNullLiteral ELSE << "json number", v[2] >>
      [] v[1] = "string" -> << "json string", v[2] >>
      [] v[1] = "boolean" -> IF v[2] THEN << "json true" >> ELSE << "json false" >>
      [] v[1] = "array" ->
           << "json array",
              [i \in DOMAIN v[2] |->
                  IF v[2][i] = JsUndefined THEN JsonNullLiteral
                  ELSE jsonStringify(v[2][i])] >>
      [] v[1] = "object" ->
           LET defined == SelectSeq(v[2], LAMBDA p : p[2] # JsUndefined)
           IN  << "json object",
                  [i \in DOMAIN defined |->
                      << defined[i][1], jsonStringify(defined[i][2]) >>] >>

RECURSIVE jsonParse(_)
\* JSON.parse(text)
jsonParse(t) ==
    CASE t[1] = "json null" -> JsNull
      [] t[1] = "json number" -> JsNumber(t[2])
      [] t[1] = "json string" -> JsString(t[2])
      [] t[1] = "json true" -> JsBoolean(TRUE)
      [] t[1] = "json false" -> JsBoolean(FALSE)
      [] t[1] = "json array" ->
           JsArray([i \in DOMAIN t[2] |-> jsonParse(t[2][i])])
      [] t[1] = "json object" ->
           JsObject([i \in DOMAIN t[2] |-> << t[2][i][1], jsonParse(t[2][i][2]) >>])

RECURSIVE nullPropertiesOmitted(_)
\* The value without its properties of value null, at every depth.
nullPropertiesOmitted(v) ==
    CASE v[1] = "array" ->
           JsArray([i \in DOMAIN v[2] |-> nullPropertiesOmitted(v[2][i])])
      [] v[1] = "object" ->
           LET kept == SelectSeq(v[2], LAMBDA p : p[2] # JsNull)
           IN  JsObject([i \in DOMAIN kept |->
                            << kept[i][1], nullPropertiesOmitted(kept[i][2]) >>])
      [] OTHER -> v

\* Mutation of formatDataForDownload: null properties are not written.
formatDataForDownloadWithoutNulls(data) == jsonStringify(nullPropertiesOmitted(data))

\* main-generator.ts:94-96
formatDataForDownload(data) == jsonStringify(data)

\* A number | null field of the records.
nullableNumberValue(v) == IF v = Null THEN JsNull ELSE JsNumber(v[1])

\* A string | null field of the records.
nullableStringValue(v) == IF v = Null THEN JsNull ELSE JsString(v[1])

\* The Account object an account record stands for.
accountValue(a) ==
    JsObject(<<
        << "account_id", JsString(a.account_id) >>,
        << "balances", JsObject(<<
              << "available", nullableNumberValue(a.balances.available) >>,
              << "current", JsNumber(a.balances.current) >>,
              << "limit", nullableNumberValue(a.balances.limit) >> >>) >>,
        << "subtype", JsString(a.subtype) >>,
        << "type", JsString(a.type) >> >>)

\* The Transaction object a transaction record stands for.
transactionValue(t) ==
    JsObject(<<
        << "transaction_id", JsString(t.transaction_id) >>,
        << "account_id", JsString(t.account_id) >>,
        << "amount", JsNumber(t.amount) >>,
        << "category",
           JsArray([i \in DOMAIN t.category |-> JsString(t.category[i])]) >>,
        << "category_id", JsString(t.category_id) >>,
        << "pending", JsBoolean(t.pending) >>,
        << "merchant_name", JsString(t.merchant_name) >>,
        << "date", JsString(t.date) >>,
        << "authorized_date", nullableStringValue(t.authorized_date) >> >>)

\* The RemovedTransaction object a removed record stands for.
removedValue(r) ==
    JsObject(<<
        << "transaction_id", JsString(r.transaction_id) >>,
        << "account_id", JsString(r.account_id) >> >>)

\* The PlaidTransactionsResponse object a response record stands for.
responseValue(r) ==
    JsObject(<<
        << "accounts",
           JsArray([i \in DOMAIN r.accounts |-> accountValue(r.accounts[i])]) >>,
        << "added",
           JsArray([i \in DOMAIN r.added |-> transactionValue(r.added[i])]) >>,
        << "modified",
           JsArray([i \in DOMAIN r.modified |-> transactionValue(r.modified[i])]) >>,
        << "removed",
           JsArray([i \in DOMAIN r.removed |-> removedValue(r.removed[i])]) >>,
        << "next_cursor", JsString(r.next_cursor) >>,
        << "has_more", JsBoolean(r.has_more) >>,
        << "request_id", JsString(r.request_id) >>,
        << "transactions_update_status",
           JsString(r.transactions_update_status) >> >>)

----------------------------------------------------------------------------
(* formatTransactionsAsCsv (src/unnamed/part_007) *)
(* Strings are sequences of characters in this section. *)

Comma == ","

Quote == "\""

Newline == "\n"

\* field.includes(ch)
includesChar(field, ch) == \E i \in DOMAIN field : field[i] = ch

RECURSIVE quotesDoubled(_)
\* field.replace(/"/g, '""')
quotesDoubled(field) ==
    IF field = <<>> THEN <<>>
    ELSE (IF Head(field) = Quote THEN << Quote, Quote >> ELSE << Head(field) >>)
            \o quotesDoubled(Tail(field))

\* Mutation of escapeCsvField: the quotes inside a wrapped field are kept
\* single.
escapeCsvFieldQuotesKept(field) ==
    IF includesChar(field, Comma) \/ includesChar(field, Quote)
          \/ includesChar(field, Newline)
    THEN << Quote >> \o field \o << Quote >>
    ELSE field

\* part_007:179-184
escapeCsvField(field) ==
    IF includesChar(field, Comma) \/ includesChar(field, Quote)
          \/ includesChar(field, Newline)
    THEN << Quote >> \o quotesDoubled(field) \o << Quote >>
    ELSE field

RECURSIVE join(_, _)
\* parts.join(separator)
join(parts, separator) ==
    IF parts = <<>> THEN <<>>
    ELSE IF Len(parts) = 1 THEN parts[1]
    ELSE parts[1] \o separator \o join(Tail(parts), separator)

DigitChars == << "0", "1", "2", "3", "4", "5", "6", "7", "8", "9" >>

RECURSIVE digitsOf(_)
\* The decimal digits of a natural number.
digitsOf(n) ==
    IF n < 10 THEN << DigitChars[n + 1] >>
    ELSE digitsOf(n \div 10) \o << DigitChars[(n % 10) + 1] >>

\* amount.toFixed(2) of an amount of `cents` hundredths.
toFixed2(cents) ==
    (IF cents < 0 THEN << "-" >> ELSE <<>>)
       \o digitsOf(Abs(cents) \div 100) \o << "." >>
       \o << DigitChars[((Abs(cents) % 100) \div 10) + 1],
             DigitChars[(Abs(cents) % 10) + 1] >>

\* accountNames[tx.account_id] || tx.account_id, accountNames filled by the
\* forEach over data.accounts: the last account of an id gives the name.
accountNameOf(data, accountId) ==
    LET named == SelectSeq(data.accounts, LAMBDA a : a.account_id = accountId)
    IN  IF named # <<>> /\ named[Len(named)].name # <<>>
        THEN named[Len(named)].name
        ELSE accountId

csvHeader ==
    << << "D", "a", "t", "e" >>,
       << "A", "c", "c", "o", "u", "n", "t" >>,
       << "M", "e", "r", "c", "h", "a", "n", "t" >>,
       << "C", "a", "t", "e", "g", "o", "r", "y" >>,
       << "A", "m", "o", "u", "n", "t" >>,
       << "S", "t", "a", "t", "u", "s" >> >>

\* part_007:167-176, one row; a category list that is absent or empty gives
\* the empty string.
csvRow(data, tx) ==
    << tx.date,
       accountNameOf(data, tx.account_id),
       tx.name,
       join(tx.category, << Comma, " " >>),
       toFixed2(tx.amount),
       IF tx.pending THEN << "P", "e", "n", "d", "i", "n", "g" >>
       ELSE << "P", "o", "s", "t", "e", "d" >> >>

\* part_007:156-192
formatTransactionsAsCsv(data) ==
    LET rows == [i \in DOMAIN data.added |-> csvRow(data, data.added[i])]
        line(row) == join([j \in DOMAIN row |-> escapeCsvField(row[j])], << Comma >>)
        csvRows == << line(csvHeader) >> \o [i \in DOMAIN rows |-> line(rows[i])]
    IN  join(csvRows, << Newline >>)

----------------------------------------------------------------------------
(* Validation utilities (src/unnamed/part_007) *)

\* The empty string: a string value without content, the one falsy string.
JsEmptyString == << "string" >>

\* object[name]: undefined for a property the object does not have.
property(object, name) ==
    LET at == { i \in DOMAIN object[2] : object[2][i][1] = name }
    IN  IF at = {} THEN JsUndefined ELSE object[2][CHOOSE i \in at : TRUE][2]

\* !v
falsy(v) ==
    CASE v[1] \in { "undefined", "null" } -> TRUE
      [] v[1] = "number" -> v[2] = 0 \/ v[2] = NaN
      [] v[1] = "string" -> Len(v) = 1
      [] v[1] = "boolean" -> ~v[2]
      [] OTHER -> FALSE

\* Array.isArray(v)
isArray(v) == v[1] = "array"

RECURSIVE pushedInOrder(_)
\* The entries pushed by the calls of a forEach callback, in order.
pushedInOrder(perElement) ==
    IF perElement = <<>> THEN <<>>
    ELSE Head(perElement) \o pushedInOrder(Tail(perElement))

\* `${transaction.transaction_id || index}`
idOrIndex(transaction, index) ==
    IF falsy(property(transaction, "transaction_id")) THEN JsNumber(index)
    ELSE property(transaction, "transaction_id")

\* part_007:23-33, the checks of the top-level properties.
criticalErrors(data) ==
    LET accts == property(data, "accounts")
        add == property(data, "added")
    IN  (IF falsy(accts) \/ ~isArray(accts) \/ Len(accts[2]) = 0
         THEN << << "Missing or empty accounts array" >> >> ELSE <<>>)
     \o (IF falsy(add) \/ ~isArray(add)
         THEN << << "Missing transactions array" >> >> ELSE <<>>)
     \o (IF falsy(property(data, "request_id"))
         THEN << << "Missing request_id" >> >> ELSE <<>>)

\* Mutation of hasNoBalance: the available balance is the one looked at.
hasNoBalanceAvailable(account) ==
    LET balances == property(account, "balances")
    IN  falsy(balances) \/ falsy(property(balances, "available"))

\* !account.balances || !account.balances.current
hasNoBalance(account) ==
    LET balances == property(account, "balances")
    IN  falsy(balances) \/ falsy(property(balances, "current"))

\* part_007:45-51, the errors pushed for one account.
accountErrors(account, index) ==
    (IF falsy(property(account, "account_id"))
     THEN << << "Account at index missing account_id", index >> >> ELSE <<>>)
 \o (IF hasNoBalance(account)
     THEN << << "Account missing balance information",
                property(account, "account_id") >> >>
     ELSE <<>>)

\* part_007:53-59, the warnings pushed for one account.
accountWarnings(account) ==
    (IF falsy(property(account, "name"))
     THEN << << "Account missing name", property(account, "account_id") >> >>
     ELSE <<>>)
 \o (IF falsy(property(account, "type"))
     THEN << << "Account missing type", property(account, "account_id") >> >>
     ELSE <<>>)

\* part_007:64-80, the errors pushed for one transaction.
transactionErrors(transaction, index, accountIds) ==
    LET accountId == property(transaction, "account_id")
        amount == property(transaction, "amount")
    IN  (IF falsy(property(transaction, "transaction_id"))
         THEN << << "Transaction at index missing transaction_id", index >> >>
         ELSE <<>>)
     \o (IF falsy(accountId)
         THEN << << "Transaction missing account_id",
                    idOrIndex(transaction, index) >> >>
         ELSE IF accountId \notin accountIds
         THEN << << "Transaction references non-existent account",
                    idOrIndex(transaction, index), accountId >> >>
         ELSE <<>>)
     \o (IF falsy(property(transaction, "date"))
         THEN << << "Transaction missing date",
                    idOrIndex(transaction, index) >> >>
         ELSE <<>>)
     \o (IF amount[1] \in { "undefined", "null" }
         THEN << << "Transaction missing amount",
                    idOrIndex(transaction, index) >> >>
         ELSE <<>>)

\* new Date(t.date), as <<the day>> or <<>> for an Invalid Date.
dateOf(transaction) ==
    LET date == property(transaction, "date")
    IN  IF date[1] = "string" /\ Len(date) = 2 THEN << date[2] >> ELSE <<>>

\* The day new Date() lies in.
Today == 0

\* part_007:84-100.  The dates are sorted by their time; if one of them is
\* invalid the comparator gives NaN for it, which the sort takes as "equal",
\* and a list of at most two keeps its order.
dateWarnings(add) ==
    LET dates == [i \in DOMAIN add |-> dateOf(add[i])]
        allValid == \A i \in DOMAIN dates : dates[i] # <<>>
        earliestDate ==
            IF allValid
            THEN << CHOOSE d \in { dates[i][1] : i \in DOMAIN dates } :
                        \A i \in DOMAIN dates : d <= dates[i][1] >>
            ELSE dates[1]
        latestDate ==
            IF allValid
            THEN << CHOOSE d \in { dates[i][1] : i \in DOMAIN dates } :
                        \A i \in DOMAIN dates : d >= dates[i][1] >>
            ELSE dates[Len(dates)]
    IN  IF Len(dates) = 0 THEN <<>>
        ELSE (IF /\ earliestDate # <<>>
                 /\ latestDate # <<>>
                 /\ latestDate[1] - earliestDate[1] > 365 * 2
              THEN << << "Transaction date range unusually large",
                         latestDate[1] - earliestDate[1] >> >>
              ELSE <<>>)
          \o (IF latestDate # <<>> /\ latestDate[1] > Today
              THEN << << "Some transactions have future dates" >> >>
              ELSE <<>>)

\* part_007:14-107
validateFinancialData(data) ==
    LET critical == criticalErrors(data)
        accts == property(data, "accounts")[2]
        add == property(data, "added")[2]
        accountIds == { property(accts[i], "account_id") : i \in DOMAIN accts }
        errors ==
            pushedInOrder([i \in DOMAIN accts |-> accountErrors(accts[i], i - 1)])
         \o pushedInOrder([i \in DOMAIN add |->
                              transactionErrors(add[i], i - 1, accountIds)])
        warnings ==
            pushedInOrder([i \in DOMAIN accts |-> accountWarnings(accts[i])])
         \o dateWarnings(add)
    IN  IF Len(critical) > 0
        THEN [valid |-> FALSE, errors |-> critical, warnings |-> <<>>]
        ELSE [valid |-> Len(errors) = 0, errors |-> errors,
              warnings |-> warnings]

\* Mutation of absOf: the amount itself.
absOfSigned(amount) ==
    CASE amount[1] = "number" -> amount[2]
      [] amount[1] = "null" -> 0
      [] OTHER -> NaN

\* Math.abs(amount) of a property value: NaN for undefined, 0 for null.
absOf(amount) ==
    CASE amount[1] = "number" -> IF amount[2] = NaN THEN NaN ELSE Abs(amount[2])
      [] amount[1] = "null" -> 0
      [] OTHER -> NaN

RECURSIVE volumeOf(_, _)
\* transactionVolume += Math.abs(transaction.amount), from `volume` on.
volumeOf(add, volume) ==
    IF add = <<>> THEN volume
    ELSE LET term == absOf(property(Head(add), "amount"))
         IN  volumeOf(Tail(add),
                      IF volume = NaN \/ term = NaN THEN NaN ELSE volume + term)

\* Length of the periods the calendar months are taken as.
DaysPerMonth == 30

\* `${date.getFullYear()}-${String(date.getMonth() + 1).padStart(2, '0')}`:
\* the month the day lies in, months counted from today's, and "NaN-NaN" for
\* an Invalid Date.
monthKey(transaction) ==
    LET date == dateOf(transaction)
    IN  IF date = <<>> THEN << "NaN-NaN" >>
        ELSE << "month", date[1] \div DaysPerMonth >>

\* The record a forEach of `counts[key] = (counts[key] || 0) + 1` builds.
countsByKey(keys) ==
    [k \in { keys[i] : i \in DOMAIN keys } |->
        Cardinality({ i \in DOMAIN keys : keys[i] = k })]

RECURSIVE gcd(_, _)
gcd(a, b) == IF b = 0 THEN a ELSE gcd(b, a % b)

\* a / b for b > 0, as the fraction in lowest terms.
quotient(a, b) ==
    IF a = NaN THEN [numerator |-> NaN, denominator |-> 1]
    ELSE [numerator |-> a \div gcd(a, b), denominator |-> b \div gcd(a, b)]

\* part_007:114-149
calculateDataStatistics(data) ==
    LET accts == property(data, "accounts")[2]
        add == property(data, "added")[2]
        transactionVolume == volumeOf(add, 0)
    IN  [totalAccounts |-> Len(accts),
         totalTransactions |-> Len(add),
         accountTypes |->
            countsByKey([i \in DOMAIN accts |-> property(accts[i], "type")]),
         transactionVolume |-> transactionVolume,
         averageTransactionAmount |->
            IF Len(add) > 0 THEN quotient(transactionVolume, Len(add))
            ELSE [numerator |-> 0, denominator |-> 1],
         transactionsByMonth |->
            countsByKey([i \in DOMAIN add |-> monthKey(add[i])])]

----------------------------------------------------------------------------
(* generateMockData (src/components/company-profile-generator.tsx) *)

\* list.indexOf(x)
indexOf(list, x) ==
    IF \E i \in DOMAIN list : list[i] = x
    THEN (CHOOSE i \in DOMAIN list : list[i] = x /\ \A j \in 1 .. i - 1 : list[j] # x) - 1
    ELSE 0 - 1

companySizes == COMPANY_SIZE_NAMES

transactionVolumes == << 50, 150, 400, 800, 1500 >>

accountCounts == << 2, 3, 4, 5, 7 >>

creditCardCounts == << 1, 2, 3, 4, 6 >>

revenueBases == << 500000, 2000000, 10000000, 50000000, 200000000 >>

\* table[sizeIndex]; undefined, which arithmetic turns into NaN, for -1.
tableAt(table, sizeIndex) == IF sizeIndex < 0 THEN NaN ELSE table[sizeIndex + 1]

\* Number of iterations of `for (let i = from; i < n; i++)`; none if n is
\* undefined.
iterationsFrom(from, n) == IF n = NaN \/ n <= from THEN 0 ELSE n - from

\* Math.floor(x * n / d), NaN for NaN.
floorOfProduct(x, n, d) == IF x = NaN THEN NaN ELSE mulDivFloor(x, n, d)

\* Math.floor(revenueBase * (0.8 + Math.random() * 0.4))
mockAnnualRevenue(sizeIndex, r) ==
    floorOfProduct(tableAt(revenueBases, sizeIndex), 8 * RandDen + 4 * r,
                   10 * RandDen)

mockAccountTypes == << "Checking", "Money Market", "Savings" >>

accountPurposes ==
    << "Payroll", "Tax", "Reserve", "Investment", "Project", "Escrow",
       "International" >>

cardTypes ==
    << "Business", "Corporate", "Purchasing", "Travel", "Rewards", "Cash Back" >>

\* The outcomes of Math.random() for the additional bank accounts are chosen
\* one by one, as numerators over NameDen: whether two names repeat must not
\* depend on the period of the tape.
NameDen == 2

NameDraws == 0 .. NameDen - 1

AdditionalDraws == [type : NameDraws, purpose : NameDraws, balance : NameDraws]

\* company-profile-generator.tsx:537-549, one iteration.
additionalAccount(revenue, draws) ==
    LET accountType ==
            mockAccountTypes[(draws.type * Len(mockAccountTypes)) \div NameDen + 1]
        purpose ==
            accountPurposes[(draws.purpose * Len(accountPurposes)) \div NameDen + 1]
    IN  [account_name |-> << purpose, accountType >>,
         account_type |-> accountType,
         starting_balance |->
            floorOfProduct(revenue, 3 * (5 * NameDen + 10 * draws.balance),
                           1000 * NameDen)]

\* company-profile-generator.tsx:513-549.  Two draws of the tape.
generateBankAccounts(sizeIndex, revenue, additional, tape, pos) ==
    << [account_name |-> << "Primary Operating Account" >>,
        account_type |-> "Checking",
        starting_balance |->
           floorOfProduct(revenue,
                          8 * (7 * RandDen + 6 * mathRandom(tape, pos, 1)),
                          1000 * RandDen)],
       [account_name |-> << "Business Savings" >>,
        account_type |-> "Savings",
        starting_balance |->
           floorOfProduct(revenue,
                          15 * (7 * RandDen + 6 * mathRandom(tape, pos, 2)),
                          1000 * RandDen)] >>
    \o [i \in DOMAIN additional |-> additionalAccount(revenue, additional[i])]

\* company-profile-generator.tsx:557-576: the card names.  One draw for
\* every card but the first.
generateCreditCards(sizeIndex, tape, pos) ==
    << [card_name |-> << "Primary Business Card" >>] >>
    \o [i \in 1 .. iterationsFrom(1, tableAt(creditCardCounts, sizeIndex)) |->
           [card_name |->
               << cardTypes[floorRandomTimes(mathRandom(tape, pos, i),
                                             Len(cardTypes)) + 1],
                  "Card" >>]]

\* Longest statement generated: a statement is cut after this many
\* transactions.
MaxStatementLen == 3

\* Math.floor(Math.pow(r, 1.5) * 730) for r = k/RandDen.
daysAgoBiasedOf ==
    [k \in Rand |->
        CHOOSE n \in 0 .. 730 :
            /\ n * n * RandDen * RandDen * RandDen <= 730 * 730 * k * k * k
            /\ (n + 1) * (n + 1) * RandDen * RandDen * RandDen
                   > 730 * 730 * k * k * k]

daysAgoBiased(k) == daysAgoBiasedOf[k]

RECURSIVE sortedByTime(_)
\* dates.sort((a, b) => a.getTime() - b.getTime())
sortedByTime(dates) ==
    IF dates = <<>> THEN <<>>
    ELSE LET least == CHOOSE i \in DOMAIN dates :
                          \A j \in DOMAIN dates :
                              dates[i] < dates[j] \/ (dates[i] = dates[j] /\ i <= j)
         IN  << dates[least] >>
                 \o sortedByTime([i \in 1 .. Len(dates) - 1 |->
                                     IF i < least THEN dates[i] ELSE dates[i + 1]])

\* Amounts are kept in half cents.
HalfCentsPerDollar == 200

\* The amount of a transaction is made from price tables by several draws;
\* it is taken here from a table of amounts with and without a fraction of a
\* cent and of both signs, by one draw.
mockAmounts == << 0 - 2101, 25000, 199, 0 - 60001 >>

mockAmount(r) == mockAmounts[floorRandomTimes(r, Len(mockAmounts)) + 1]

\* Math.round(balance * 100) / 100
roundToCents(halfCents) == ((halfCents + 1) \div 2) * 2

RECURSIVE withRunningBalance(_, _)
\* company-profile-generator.tsx:1432-1435
withRunningBalance(transactions, balance) ==
    IF transactions = <<>> THEN <<>>
    ELSE LET t == Head(transactions)
             next == balance + t.amount
         IN  << [t EXCEPT !.balance = roundToCents(next)] >>
                 \o withRunningBalance(Tail(transactions), next)

\* bankAccounts.find((acc) => acc.account_name === accountName)
\*     ?.starting_balance || 50000, in half cents.
startingBalanceOf(accts, accountName) ==
    LET found == { i \in DOMAIN accts : accts[i].account_name = accountName }
        first == CHOOSE i \in found : \A j \in found : i <= j
    IN  IF found # {} /\ accts[first].starting_balance \notin { 0, NaN }
        THEN accts[first].starting_balance * HalfCentsPerDollar
        ELSE 50000 * HalfCentsPerDollar

\* generateTransactions (company-profile-generator.tsx:579-1438): `count`
\* draws for the dates, then one for the amount of every transaction.  The
\* result carries the number of draws consumed.
generateTransactions(count, accountType, accountName, accts, tape, pos) ==
    LET dates == sortedByTime([i \in 1 .. count |->
                                  0 - daysAgoBiased(mathRandom(tape, pos, i))])
        transactions ==
            [i \in 1 .. count |->
                [date |-> dates[i],
                 amount |-> mockAmount(mathRandom(tape, pos, count + i)),
                 balance |-> 0]]
        balance == IF accountType = "bank"
                   THEN startingBalanceOf(accts, accountName) ELSE 0
    IN  [transactions |-> withRunningBalance(transactions, balance),
         draws |-> 2 * count]

\* Math.floor(transactionVolume * tenths / 10), cut to MaxStatementLen; no
\* transaction for a volume that is undefined.
statementCount(volume, hundredths) ==
    IF volume = NaN THEN 0
    ELSE Min((volume * hundredths) \div 100, MaxStatementLen)

\* company-profile-generator.tsx:1443-1449
accountTransactionCount(volume, account) ==
    statementCount(volume,
        CASE account.account_type = "Money Market" -> 50
          [] account.account_type = "Savings" -> 30
          [] account.account_name = << "Primary Operating Account" >> -> 200
          [] OTHER -> 100)

\* company-profile-generator.tsx:1455-1461
cardTransactionCount(volume, card) ==
    statementCount(volume,
        CASE card.card_name[1] = "Purchasing" -> 96
          [] card.card_name[1] = "Travel" -> 56
          [] card.card_name = << "Primary Business Card" >> -> 120
          [] OTHER -> 80)

\* statements[name] = statement
assignStatement(statements, name, statement) ==
    IF \E i \in DOMAIN statements : statements[i][1] = name
    THEN [i \in DOMAIN statements |->
             IF statements[i][1] = name THEN << name, statement >>
             ELSE statements[i]]
    ELSE Append(statements, << name, statement >>)

\* formValues while generateMockData is not running.
NoFormValues == [companySize |-> ""]

----------------------------------------------------------------------------
(* generateFinancialData, step by step *)

\* The larger numbers of transactions are requested for the smallest and
\* the largest size tier, and the time zone east of Greenwich is taken with
\* the requests that leave out investments and loans.
Init ==
    /\ pc = "start"
    /\ companyData \in CompanyInputs
    /\ options \in OptionInputs
    /\ options.num_transactions # FewTransactions =>
          companyData.company_size \in { "Startup (1-10)", "Enterprise (1000+)" }
    /\ timeZoneEast \in BOOLEAN
    /\ timeZoneEast =>
          /\ options.num_transactions = FewTransactions
          /\ ~options.include_investments
          /\ ~options.include_loans
    /\ randomTape = <<>>
    /\ randomPos = 0
    /\ companyProfile = NoProfile
    /\ accounts = <<>>
    /\ filteredAccounts = <<>>
    /\ added = <<>>
    /\ modified = <<>>
    /\ removed = <<>>
    /\ result = <<>>
    /\ error = ""
    /\ download = <<>>
    /\ validation = <<>>
    /\ statistics = <<>>
    /\ formValues = NoFormValues
    /\ bankAccounts = <<>>
    /\ creditCards = <<>>
    /\ bankStatements = <<>>
    /\ creditStatements = <<>>
    /\ iteration = 0

\* main-generator.ts:33-35
CheckRequired ==
    /\ pc = "start"
    /\ IF missingRequired(companyData)
       THEN pc' = "thrown" /\ error' = MissingDataError
       ELSE pc' = "profile" /\ error' = error
    /\ UNCHANGED <<mockVars, validation, statistics, companyData, options, timeZoneEast,
                   randomTape, randomPos, companyProfile,
                   accounts, filteredAccounts, added, modified, removed, result,
                   download>>

\* main-generator.ts:38; the first Math.random() call fixes the tape.
GenerateProfile ==
    /\ pc = "profile"
    /\ \E tape \in [1 .. RandPeriod -> Rand] :
          /\ randomTape' = tape
          /\ companyProfile' = generateCompanyProfile(companyData, tape, 0)
    /\ randomPos' = profileDraws(companyData)
    /\ pc' = "accounts"
    /\ UNCHANGED <<mockVars, validation, statistics, companyData, options, timeZoneEast,
                   accounts, filteredAccounts, added,
                   modified, removed, result, error,
                   download>>

\* main-generator.ts:41
GenerateAccounts ==
    /\ pc = "accounts"
    /\ LET set == generateAccountSet(companyProfile, randomTape, randomPos)
       IN  /\ accounts' = set.accounts
           /\ randomPos' = randomPos + set.draws
    /\ pc' = "filter"
    /\ UNCHANGED <<mockVars, validation, statistics, companyData, options, timeZoneEast,
                   randomTape, companyProfile,
                   filteredAccounts, added, modified, removed, result, error,
                   download>>

\* main-generator.ts:44-55
FilterAccounts ==
    /\ pc = "filter"
    /\ filteredAccounts' = filterAccounts(options, accounts)
    /\ IF noAccountsLeft(filteredAccounts')
       THEN pc' = "thrown" /\ error' = NoAccountsError
       ELSE pc' = "tx_partition" /\ error' = error
    /\ UNCHANGED <<mockVars, validation, statistics, companyData, options, timeZoneEast,
                   randomTape, randomPos, companyProfile,
                   accounts, added, modified, removed, result,
                   download>>

\* The options generateFinancialData hands to generateTransactionSet
\* (main-generator.ts:61-65); modifiedCount and removedCount stay undefined.
txOptions ==
    [addedCount |-> options.num_transactions, modifiedCount |-> 0,
     removedCount |-> 0, start_date |-> << options.start_date >>,
     end_date |-> << options.end_date >>]

baseCount == baseCountOf(txOptions.addedCount, companyProfile.company_size)

\* Mutation of txAccounts: the unfiltered account list is handed over.
txAccountsUnfiltered == accounts

\* The accounts argument of generateTransactionSet (main-generator.ts:59).
txAccounts == filteredAccounts

\* transaction-generator.ts:685-692: no suitable accounts, empty set.
TxPartition ==
    /\ pc = "tx_partition"
    /\ IF Len(depositoryAccountsOf(txAccounts)) = 0
          \/ Len(paymentAccountsOf(txAccounts)) = 0
       THEN pc' = "assemble"
       ELSE pc' = "tx_deposits"
    /\ added' = <<>>
    /\ modified' = <<>>
    /\ removed' = <<>>
    /\ UNCHANGED <<mockVars, validation, statistics, companyData, options, timeZoneEast,
                   randomTape, randomPos, companyProfile,
                   accounts, filteredAccounts, result, error,
                   download>>

\* transaction-generator.ts:697-706: the deposit loop.
TxDeposits ==
    /\ pc = "tx_deposits"
    /\ LET depositCount ==
               depositCountOf(baseCount, mathRandom(randomTape, randomPos, 1))
           loop == generateLoop("deposit", depositCount,
                                depositoryAccountsOf(txAccounts), companyProfile,
                                txOptions, timeZoneEast, randomTape, randomPos + 1)
       IN  /\ added' = loop.txs
           /\ randomPos' = randomPos + 1 + loop.draws
    /\ pc' = "tx_payments"
    /\ UNCHANGED <<mockVars, validation, statistics, companyData, options, timeZoneEast, randomTape,
                   companyProfile, accounts, filteredAccounts, modified,
                   removed, result, error,
                   download>>

\* transaction-generator.ts:708-717: the payment loop.
TxPayments ==
    /\ pc = "tx_payments"
    /\ IF /\ vendorsNotIterable(companyProfile.industry)
          /\ paymentCountOf(baseCount, Len(added)) > 0
       THEN /\ pc' = "thrown"
            /\ error' = NotIterableError
            /\ UNCHANGED <<added, randomPos,
                           download>>
       ELSE LET loop == generateLoop("payment",
                                     paymentCountOf(baseCount, Len(added)),
                                     paymentAccountsOf(txAccounts),
                                     companyProfile, txOptions, timeZoneEast,
                                     randomTape, randomPos)
            IN  /\ added' = added \o loop.txs
                /\ randomPos' = randomPos + loop.draws
                /\ pc' = "tx_sort"
                /\ error' = error
    /\ UNCHANGED <<mockVars, validation, statistics, companyData, options, timeZoneEast, randomTape,
                   companyProfile, accounts, filteredAccounts, modified,
                   removed, result,
                   download>>

\* transaction-generator.ts:720
TxSort ==
    /\ pc = "tx_sort"
    /\ added' = sortAdded(added)
    /\ pc' = "tx_modify"
    /\ UNCHANGED <<mockVars, validation, statistics, companyData, options, timeZoneEast,
                   randomTape, randomPos, companyProfile,
                   accounts, filteredAccounts, modified, removed, result, error,
                   download>>

\* transaction-generator.ts:723-746: copies of randomly chosen entries.
TxModify ==
    /\ pc = "tx_modify"
    /\ LET n == Min(modifiedCountOf(txOptions.modifiedCount, baseCount), Len(added))
           loop == modifyLoop(n, added, randomTape, randomPos)
       IN  /\ modified' = loop.txs
           /\ added' = loop.added
           /\ randomPos' = randomPos + loop.draws
    /\ pc' = "tx_remove"
    /\ UNCHANGED <<mockVars, validation, statistics, companyData, options, timeZoneEast, randomTape,
                   companyProfile, accounts, filteredAccounts, removed,
                   result, error,
                   download>>

removedEntry(t) == [transaction_id |-> t.transaction_id, account_id |-> t.account_id]

\* transaction-generator.ts:749-762: {transaction_id, account_id} pairs.
TxRemove ==
    /\ pc = "tx_remove"
    /\ LET n == Min(removedCountOf(txOptions.removedCount, baseCount), Len(added))
       IN  /\ removed' =
                 [i \in 1 .. n |->
                     removedEntry(
                         added[floorRandomTimes(mathRandom(randomTape, randomPos, i),
                                                Len(added)) + 1])]
           /\ randomPos' = randomPos + n
    /\ pc' = "assemble"
    /\ UNCHANGED <<mockVars, validation, statistics, companyData, options, timeZoneEast,
                   randomTape, companyProfile, accounts,
                   filteredAccounts, added, modified, result, error,
                   download>>

\* `req_${Math.random().toString(36).substring(2, 15)}`
generateRequestId(r) == <<"req", r>>

\* The values the PlaidTransactionsResponse type declares for
\* transactions_update_status (plaid-types.ts:286).
TransactionsUpdateStatuses ==
    { "PARTIAL_COMPLETION", "FULL_COMPLETION", "HISTORICAL_UPDATE_COMPLETE" }

\* The response object of main-generator.ts:69-78.
response(opts, accts, add, mod, rem, requestId) ==
    [accounts |-> accts,
     added |-> IF opts.include_payments THEN add ELSE <<>>,
     modified |-> mod,
     removed |-> rem,
     next_cursor |-> "end",
     has_more |-> FALSE,
     request_id |-> requestId,
     transactions_update_status |-> "full_completion"]

\* main-generator.ts:69-78
Assemble ==
    /\ pc = "assemble"
    /\ result' = << response(options, filteredAccounts, added, modified, removed,
                             generateRequestId(
                                 mathRandom(randomTape, randomPos, 1))) >>
    /\ randomPos' = randomPos + 1
    /\ pc' = "returned"
    /\ UNCHANGED <<mockVars, validation, statistics, companyData, options, timeZoneEast,
                   randomTape, companyProfile, accounts,
                   filteredAccounts, added, modified, removed, error,
                   download>>

\* formatDataForDownload applied to the returned response.
FormatDataForDownload ==
    /\ pc = "returned"
    /\ download' = << formatDataForDownload(responseValue(result[1])) >>
    /\ pc' = "downloaded"
    /\ UNCHANGED <<mockVars, validation, statistics, companyData, options, timeZoneEast, randomTape, randomPos,
                   companyProfile, accounts, filteredAccounts, added, modified,
                   removed, result, error>>

\* validateFinancialData applied to the returned response.  Only the errors
\* are looked at afterwards: the account records carry no name, which the
\* generators always set and the validator only warns about.
ValidateFinancialData ==
    /\ pc = "returned"
    /\ validation' = << validateFinancialData(responseValue(result[1])) >>
    /\ pc' = "validated"
    /\ UNCHANGED <<mockVars, statistics, download, companyData, options, timeZoneEast, randomTape,
                   randomPos, companyProfile, accounts, filteredAccounts, added,
                   modified, removed, result, error>>

Next ==
    \/ CheckRequired
    \/ GenerateProfile
    \/ GenerateAccounts
    \/ FilterAccounts
    \/ TxPartition
    \/ TxDeposits
    \/ TxPayments
    \/ TxSort
    \/ TxModify
    \/ TxRemove
    \/ Assemble
    \/ FormatDataForDownload
    \/ ValidateFinancialData

Spec == Init /\ [][Next]_vars

----------------------------------------------------------------------------
(* generateFinancialData with the transaction generator of part_006 *)

\* Companies of every size tier and of an unknown size, of the business
\* models generateDepositTransaction tells apart and of another one, with a
\* known and an unknown industry.
StyledCompanyInputs ==
    [company_name : { <<"Acme", "Corp">> },
     industry : { "Technology", UnrecognizedIndustry },
     business_model : { "SaaS", "Consulting", "B2B" },
     company_size : { "Unknown" } \cup SeqToSet(COMPANY_SIZE_NAMES),
     annual_revenue : { 0 }]

StyledOptions(n) ==
    [num_transactions |-> n, start_date |-> 0 - MaxDaysAgo, end_date |-> 0,
     include_deposits |-> TRUE, include_payments |-> TRUE,
     include_investments |-> TRUE, include_loans |-> TRUE]

\* Every company with the smaller number of transactions in both time
\* zones, the technology companies of the smallest and of the unknown size
\* with every number of transactions, and a company whose industry names an
\* inherited property.
StyledInputs ==
    { [company |-> c, options |-> StyledOptions(FewTransactions), east |-> e] :
        c \in StyledCompanyInputs, e \in BOOLEAN }
    \cup
    { [company |-> c, options |-> StyledOptions(n), east |-> FALSE] :
        c \in { x \in StyledCompanyInputs :
                  /\ x.industry = "Technology"
                  /\ x.company_size \in { "Unknown", "Startup (1-10)" } },
        n \in NumTransactions }
    \cup
    { [company |-> [company_name |-> <<"Acme", "Corp">>,
                    industry |-> InheritedIndustryName,
                    business_model |-> "SaaS",
                    company_size |-> "Startup (1-10)", annual_revenue |-> 0],
       options |-> StyledOptions(FewTransactions), east |-> FALSE] }

StyledInit ==
    /\ pc = "start"
    /\ \E input \in StyledInputs :
          /\ companyData = input.company
          /\ options = input.options
          /\ timeZoneEast = input.east
    /\ randomTape = <<>>
    /\ randomPos = 0
    /\ companyProfile = NoProfile
    /\ accounts = <<>>
    /\ filteredAccounts = <<>>
    /\ added = <<>>
    /\ modified = <<>>
    /\ removed = <<>>
    /\ result = <<>>
    /\ error = ""
    /\ download = <<>>
    /\ validation = <<>>
    /\ statistics = <<>>
    /\ formValues = NoFormValues
    /\ bankAccounts = <<>>
    /\ creditCards = <<>>
    /\ bankStatements = <<>>
    /\ creditStatements = <<>>
    /\ iteration = 0

\* part_006:973-982: the deposit loop.
StyledTxDeposits ==
    /\ pc = "tx_deposits"
    /\ LET depositCount ==
               depositCountOf(baseCount, mathRandom(randomTape, randomPos, 1))
       IN  IF sizeRangeNotIterable(companyProfile.company_size) /\ depositCount > 0
           THEN /\ pc' = "thrown"
                /\ error' = UndefinedNotIterableError
                /\ UNCHANGED <<added, randomPos>>
           ELSE LET loop == styledGenerateLoop("deposit", depositCount,
                                               depositoryAccountsOf(txAccounts),
                                               companyProfile, txOptions,
                                               timeZoneEast, randomTape,
                                               randomPos + 1)
                IN  /\ added' = loop.txs
                    /\ randomPos' = randomPos + 1 + loop.draws
                    /\ pc' = "tx_payments"
                    /\ error' = error
    /\ UNCHANGED <<mockVars, validation, statistics, companyData, options, timeZoneEast, randomTape,
                   companyProfile, accounts, filteredAccounts, modified,
                   removed, result, download>>

\* part_006:984-993: the payment loop.
StyledTxPayments ==
    /\ pc = "tx_payments"
    /\ LET paymentCount == paymentCountOf(baseCount, Len(added))
       IN  IF vendorsNotIterable(companyProfile.industry) /\ paymentCount > 0
           THEN /\ pc' = "thrown"
                /\ error' = NotIterableError
                /\ UNCHANGED <<added, randomPos>>
           ELSE IF sizeRangeNotIterable(companyProfile.company_size) /\ paymentCount > 0
           THEN /\ pc' = "thrown"
                /\ error' = UndefinedNotIterableError
                /\ UNCHANGED <<added, randomPos>>
           ELSE LET loop == styledGenerateLoop("payment", paymentCount,
                                               paymentAccountsOf(txAccounts),
                                               companyProfile, txOptions,
                                               timeZoneEast, randomTape, randomPos)
                IN  /\ added' = added \o loop.txs
                    /\ randomPos' = randomPos + loop.draws
                    /\ pc' = "tx_sort"
                    /\ error' = error
    /\ UNCHANGED <<mockVars, validation, statistics, companyData, options, timeZoneEast, randomTape,
                   companyProfile, accounts, filteredAccounts, modified,
                   removed, result, download>>

\* part_006:998-1022: copies of randomly chosen entries.
StyledTxModify ==
    /\ pc = "tx_modify"
    /\ LET n == Min(modifiedCountOf(txOptions.modifiedCount, baseCount), Len(added))
           loop == styledModifyLoop(n, added, randomTape, randomPos)
       IN  /\ modified' = loop.txs
           /\ randomPos' = randomPos + loop.draws
    /\ pc' = "tx_remove"
    /\ UNCHANGED <<mockVars, validation, statistics, companyData, options, timeZoneEast, randomTape,
                   companyProfile, accounts, filteredAccounts, added, removed,
                   result, error, download>>

StyledNext ==
    \/ CheckRequired
    \/ GenerateProfile
    \/ GenerateAccounts
    \/ FilterAccounts
    \/ TxPartition
    \/ StyledTxDeposits
    \/ StyledTxPayments
    \/ TxSort
    \/ StyledTxModify
    \/ TxRemove
    \/ Assemble

StyledSpec == StyledInit /\ [][StyledNext]_vars

----------------------------------------------------------------------------
(* formatTransactionsAsCsv on its own inputs *)

\* Longest merchant text of the inputs.
MaxFieldLen == 2

CsvChars == { "a", Comma, Quote, Newline }

CsvStrings == UNION { [1 .. n -> CsvChars] : n \in 0 .. MaxFieldLen }

CsvAccounts == << [account_id |-> << "x" >>, name |-> << "a", Comma, "b" >>] >>

CsvCategories ==
    { <<>>, << << "a" >> >>, << << "a", Quote >>, << "b" >> >> }

CsvDate == << "2", "0", "2", "4", "-", "0", "1", "-", "3", "1" >>

CsvTransactions ==
    [date : { CsvDate }, account_id : { << "x" >>, << "y" >> },
     name : CsvStrings, category : CsvCategories,
     amount : { 0 - 150, 5 }, pending : BOOLEAN]

\* The transactions that occur in the lists of two.
CsvPairedTransactions ==
    { t \in CsvTransactions :
         /\ t.account_id = << "x" >>
         /\ Len(t.category) = 2
         /\ t.amount = 5
         /\ ~t.pending }

\* Responses with no, one and two added transactions.
CsvInputs ==
    { [accounts |-> CsvAccounts, added |-> add] :
         add \in { <<>> }
                   \cup { << t >> : t \in CsvTransactions }
                   \cup { << t, u >> : t \in CsvPairedTransactions,
                                       u \in CsvPairedTransactions } }

CsvInit ==
    /\ pc = "csv"
    /\ result \in { << data >> : data \in CsvInputs }
    /\ download = <<>>
    /\ validation = <<>>
    /\ statistics = <<>>
    /\ formValues = NoFormValues
    /\ bankAccounts = <<>>
    /\ creditCards = <<>>
    /\ bankStatements = <<>>
    /\ creditStatements = <<>>
    /\ iteration = 0
    /\ companyData = NoProfile
    /\ options = CHOOSE o \in OptionInputs : TRUE
    /\ timeZoneEast = FALSE
    /\ randomTape = <<>>
    /\ randomPos = 0
    /\ companyProfile = NoProfile
    /\ accounts = <<>>
    /\ filteredAccounts = <<>>
    /\ added = <<>>
    /\ modified = <<>>
    /\ removed = <<>>
    /\ error = ""

\* formatTransactionsAsCsv applied to the response.
FormatTransactionsAsCsv ==
    /\ pc = "csv"
    /\ download' = << formatTransactionsAsCsv(result[1]) >>
    /\ pc' = "csv_made"
    /\ UNCHANGED <<mockVars, validation, statistics, companyData, options, timeZoneEast, randomTape, randomPos,
                   companyProfile, accounts, filteredAccounts, added, modified,
                   removed, result, error>>

CsvNext == FormatTransactionsAsCsv

CsvSpec == CsvInit /\ [][CsvNext]_vars

----------------------------------------------------------------------------
(* validateFinancialData and calculateDataStatistics on their own inputs *)

balancesOf(current) == JsObject(<< << "current", JsNumber(current) >> >>)

UtilityAccounts ==
    { JsObject(<< << "account_id", id >>, << "balances", balances >>,
                  << "name", name >>, << "type", type >> >>) :
        id \in { JsEmptyString, JsString(<< 1 >>), JsString(<< 2 >>) },
        balances \in { JsUndefined, balancesOf(0), balancesOf(500),
                       balancesOf(0 - 200) },
        name \in { JsUndefined, JsString("Primary Checking") },
        type \in { JsUndefined, JsString("credit") } }

\* Accounts with every property present.
UtilitySoundAccounts ==
    { JsObject(<< << "account_id", JsString(<< id >>) >>,
                  << "balances", balancesOf(current) >>,
                  << "name", JsString("Primary Checking") >>,
                  << "type", JsString(type) >> >>) :
        id \in { 1, 2 }, current \in { 0, 500, 0 - 200 },
        type \in { "depository", "credit" } }

UtilityTransactions ==
    { JsObject(<< << "transaction_id", id >>, << "account_id", accountId >>,
                  << "date", date >>, << "amount", amount >> >>) :
        id \in { JsEmptyString, JsString(<< 7 >>) },
        accountId \in { JsEmptyString, JsString(<< 1 >>), JsString(<< 3 >>) },
        date \in { JsUndefined, JsString(0 - 800), JsString(0), JsString(1) },
        amount \in { JsUndefined, JsNull, JsNumber(0), JsNumber(0 - 5),
                     JsNumber(12) } }

\* Transactions with every property present, booked on account 1.
UtilitySoundTransactions ==
    { JsObject(<< << "transaction_id", JsString(<< id >>) >>,
                  << "account_id", JsString(<< 1 >>) >>,
                  << "date", JsString(date) >>,
                  << "amount", JsNumber(amount) >> >>) :
        id \in { 7, 8 }, date \in { 0 - 800, 0, 1 },
        amount \in { 0, 0 - 5, 12 } }

UtilityAccountLists ==
    { <<>> } \cup { << a >> : a \in UtilityAccounts }
        \cup { << a, b >> : a \in { x \in UtilitySoundAccounts :
                                       property(x, "account_id")[2] = << 1 >> },
                            b \in { x \in UtilitySoundAccounts :
                                       /\ property(x, "account_id")[2] = << 2 >>
                                       /\ property(x, "type")[2] = "credit" } }

UtilityAddedLists ==
    { <<>> } \cup { << t >> : t \in UtilityTransactions }
        \cup { << t, u >> :
                 t \in { x \in UtilitySoundTransactions :
                            property(x, "transaction_id")[2] = << 7 >> },
                 u \in { x \in UtilitySoundTransactions :
                            /\ property(x, "transaction_id")[2] = << 8 >>
                            /\ property(x, "amount")[2] = 12 } }

utilityResponse(accts, add, requestId) ==
    JsObject(<< << "accounts", JsArray(accts) >>, << "added", JsArray(add) >>,
                << "request_id", requestId >> >>)

\* Responses with and, for lists of at most one sound entry, without a
\* request_id.
UtilityInputs ==
    { utilityResponse(accts, add, JsString(<< "req", 0 >>)) :
        accts \in UtilityAccountLists, add \in UtilityAddedLists }
    \cup
    { utilityResponse(accts, add, JsEmptyString) :
        accts \in { <<>> } \cup { << a >> : a \in UtilitySoundAccounts },
        add \in { <<>> } \cup { << t >> : t \in UtilitySoundTransactions } }

\* The response is held as the JavaScript value itself.
UtilityInit ==
    /\ pc = "utilities"
    /\ result \in { << data >> : data \in UtilityInputs }
    /\ download = <<>>
    /\ validation = <<>>
    /\ statistics = <<>>
    /\ formValues = NoFormValues
    /\ bankAccounts = <<>>
    /\ creditCards = <<>>
    /\ bankStatements = <<>>
    /\ creditStatements = <<>>
    /\ iteration = 0
    /\ companyData = NoProfile
    /\ options = CHOOSE o \in OptionInputs : TRUE
    /\ timeZoneEast = FALSE
    /\ randomTape = <<>>
    /\ randomPos = 0
    /\ companyProfile = NoProfile
    /\ accounts = <<>>
    /\ filteredAccounts = <<>>
    /\ added = <<>>
    /\ modified = <<>>
    /\ removed = <<>>
    /\ error = ""

\* validateFinancialData applied to the response.
ValidateResponse ==
    /\ pc = "utilities"
    /\ validation = <<>>
    /\ validation' = << validateFinancialData(result[1]) >>
    /\ UNCHANGED <<mockVars, pc, statistics, download, companyData, options, timeZoneEast,
                   randomTape, randomPos, companyProfile, accounts,
                   filteredAccounts, added, modified, removed, result, error>>

\* calculateDataStatistics applied to the response.
CalculateDataStatistics ==
    /\ pc = "utilities"
    /\ statistics = <<>>
    /\ statistics' = << calculateDataStatistics(result[1]) >>
    /\ UNCHANGED <<mockVars, pc, validation, download, companyData, options, timeZoneEast,
                   randomTape, randomPos, companyProfile, accounts,
                   filteredAccounts, added, modified, removed, result, error>>

UtilityNext ==
    \/ ValidateResponse
    \/ CalculateDataStatistics

UtilitySpec == UtilityInit /\ [][UtilityNext]_vars

----------------------------------------------------------------------------
(* generateMockData, step by step *)

\* The company sizes of the form values: the first three tiers and a size
\* that is none of companySizes.
MockSizeInputs ==
    { companySizes[1], companySizes[2], companySizes[3], "Unknown" }

mockSizeIndex == indexOf(companySizes, formValues.companySize)

MockInit ==
    /\ pc = "mock_start"
    /\ formValues \in [companySize : MockSizeInputs]
    /\ bankAccounts = <<>>
    /\ creditCards = <<>>
    /\ bankStatements = <<>>
    /\ creditStatements = <<>>
    /\ iteration = 0
    /\ result = <<>>
    /\ download = <<>>
    /\ validation = <<>>
    /\ statistics = <<>>
    /\ companyData = NoProfile
    /\ options = CHOOSE o \in OptionInputs : TRUE
    /\ timeZoneEast = FALSE
    /\ randomTape = <<>>
    /\ randomPos = 0
    /\ companyProfile = NoProfile
    /\ accounts = <<>>
    /\ filteredAccounts = <<>>
    /\ added = <<>>
    /\ modified = <<>>
    /\ removed = <<>>
    /\ error = ""

\* company-profile-generator.tsx:366-576: the revenue, the bank accounts and
\* the credit cards.
GenerateMockAccounts ==
    /\ pc = "mock_start"
    /\ \E tape \in [1 .. RandPeriod -> Rand] :
       \E additional \in
             [1 .. iterationsFrom(2, tableAt(accountCounts, mockSizeIndex)) ->
                 AdditionalDraws] :
          LET revenue == mockAnnualRevenue(mockSizeIndex, mathRandom(tape, 0, 1))
              cards == generateCreditCards(mockSizeIndex, tape, 3)
          IN  /\ randomTape' = tape
              /\ bankAccounts' =
                    generateBankAccounts(mockSizeIndex, revenue, additional, tape, 1)
              /\ creditCards' = cards
              /\ randomPos' = 3 + Len(cards) - 1
    /\ pc' = "mock_bank_statements"
    /\ UNCHANGED <<formValues, bankStatements, creditStatements, iteration,
                   validation, statistics, download, companyData, options,
                   timeZoneEast, companyProfile, accounts, filteredAccounts,
                   added, modified, removed, result, error>>

\* company-profile-generator.tsx:1441-1451, one call of the forEach callback.
GenerateBankStatement ==
    /\ pc = "mock_bank_statements"
    /\ LET account == bankAccounts[iteration + 1]
           made == generateTransactions(
                       accountTransactionCount(
                           tableAt(transactionVolumes, mockSizeIndex), account),
                       "bank", account.account_name, bankAccounts,
                       randomTape, randomPos)
       IN  /\ bankStatements' =
                 assignStatement(bankStatements, account.account_name,
                                 made.transactions)
           /\ randomPos' = randomPos + made.draws
    /\ IF iteration + 1 < Len(bankAccounts)
       THEN iteration' = iteration + 1 /\ pc' = pc
       ELSE iteration' = 0 /\ pc' = "mock_credit_statements"
    /\ UNCHANGED <<formValues, bankAccounts, creditCards, creditStatements,
                   validation, statistics, download, companyData, options,
                   timeZoneEast, randomTape, companyProfile, accounts,
                   filteredAccounts, added, modified, removed, result, error>>

\* company-profile-generator.tsx:1453-1463, one call of the forEach callback.
GenerateCreditStatement ==
    /\ pc = "mock_credit_statements"
    /\ LET card == creditCards[iteration + 1]
           made == generateTransactions(
                       cardTransactionCount(
                           tableAt(transactionVolumes, mockSizeIndex), card),
                       "credit", card.card_name, bankAccounts,
                       randomTape, randomPos)
       IN  /\ creditStatements' =
                 assignStatement(creditStatements, card.card_name,
                                 made.transactions)
           /\ randomPos' = randomPos + made.draws
    /\ IF iteration + 1 < Len(creditCards)
       THEN iteration' = iteration + 1 /\ pc' = pc
       ELSE iteration' = 0 /\ pc' = "mock_returned"
    /\ UNCHANGED <<formValues, bankAccounts, creditCards, bankStatements,
                   validation, statistics, download, companyData, options,
                   timeZoneEast, randomTape, companyProfile, accounts,
                   filteredAccounts, added, modified, removed, result, error>>

MockNext ==
    \/ GenerateMockAccounts
    \/ GenerateBankStatement
    \/ GenerateCreditStatement

MockSpec == MockInit /\ [][MockNext]_vars

----------------------------------------------------------------------------
(* Properties *)

\* Positions after the account filter has let the call through.
AfterFilter ==
    { "tx_partition", "tx_deposits", "tx_payments", "tx_sort", "tx_modify",
      "tx_remove", "assemble", "returned" }

\* Positions at which generateTransactionSet has returned.
TxReturned == { "assemble", "returned" }

\* Positions at which generateFinancialData has returned.
Returned == { "returned", "downloaded", "validated" }

AccountIds(accts) == { accts[k].account_id : k \in 1 .. Len(accts) }

\* The include_* flag the options carry for an account type.
FlagOfType(opts, type) ==
    CASE type = "depository" -> opts.include_deposits
      [] type = "credit" -> opts.include_payments
      [] type = "investment" -> opts.include_investments
      [] type = "loan" -> opts.include_loans
      [] OTHER -> TRUE

CountOfType(accts, type) ==
    Cardinality({ k \in 1 .. Len(accts) : accts[k].type = type })

\* C1: every transaction in added references an account of the list handed
\* to generateTransactionSet, and every transaction of a returned response
\* references an account of that response's accounts.
C1_AddedReferencesAccounts ==
    /\ \A i \in 1 .. Len(added) :
          added[i].account_id \in AccountIds(filteredAccounts)
    /\ pc = "returned" =>
          \A i \in 1 .. Len(result[1].added) :
             result[1].added[i].account_id \in AccountIds(result[1].accounts)

\* C1 witness: a returned response whose added list is non-empty and books
\* on a depository and on a credit account, with an account type filtered out.
C1_Witness ==
    /\ pc = "returned"
    /\ Len(result[1].accounts) < Len(accounts)
    /\ \E i, j \in 1 .. Len(result[1].added) :
          \E a, b \in 1 .. Len(result[1].accounts) :
             /\ result[1].accounts[a].account_id = result[1].added[i].account_id
             /\ result[1].accounts[b].account_id = result[1].added[j].account_id
             /\ result[1].accounts[a].type = "depository"
             /\ result[1].accounts[b].type = "credit"

\* C2: every returned response has exactly num_transactions entries in
\* added, whatever the include_* flags; stated for the requests that keep
\* their depository accounts, for which generateTransactionSet generates
\* num_transactions transactions.
C2_AddedLengthIsRequested ==
    (pc = "returned" /\ options.include_deposits) =>
       Len(result[1].added) = options.num_transactions

\* C3: in every returned response each modified and each removed entry
\* carries the transaction_id and account_id of an entry of that response's
\* added list.
C3_DeltasReferToAdded ==
    pc = "returned" =>
       /\ \A i \in 1 .. Len(result[1].modified) :
             \E k \in 1 .. Len(result[1].added) :
                /\ result[1].added[k].transaction_id
                      = result[1].modified[i].transaction_id
                /\ result[1].added[k].account_id
                      = result[1].modified[i].account_id
       /\ \A i \in 1 .. Len(result[1].removed) :
             \E k \in 1 .. Len(result[1].added) :
                /\ result[1].added[k].transaction_id
                      = result[1].removed[i].transaction_id
                /\ result[1].added[k].account_id
                      = result[1].removed[i].account_id

\* C4: the added list generateTransactionSet returns is ordered by date,
\* most recent first.
C4_AddedSortedByDateDescending ==
    pc \in { "tx_modify", "tx_remove" } \cup TxReturned =>
       \A i, j \in 1 .. Len(added) : i < j => added[i].date >= added[j].date

\* C4 witness: generateTransactionSet has returned a list that was
\* generated in another order than it is returned: a payment, generated
\* after every deposit, stands before a deposit of an earlier date.
C4_Witness ==
    /\ pc \in TxReturned
    /\ Len(added) = options.num_transactions
    /\ \E i, j \in 1 .. Len(added) :
          /\ i < j
          /\ added[i].amount < 0
          /\ added[j].amount > 0
          /\ added[i].date > added[j].date

\* C5: the accounts of a returned response are exactly the generated
\* accounts whose type's include flag is true, in generation order.
C5_FilterByIncludeFlags ==
    pc = "returned" =>
       LET kept == result[1].accounts
       IN  /\ \A i \in 1 .. Len(kept) : FlagOfType(options, kept[i].type)
           /\ ~options.include_deposits => CountOfType(kept, "depository") = 0
           /\ ~options.include_payments => CountOfType(kept, "credit") = 0
           /\ ~options.include_investments => CountOfType(kept, "investment") = 0
           /\ ~options.include_loans => CountOfType(kept, "loan") = 0
           /\ \A k \in 1 .. Len(accounts) :
                 FlagOfType(options, accounts[k].type) =>
                    \E i \in 1 .. Len(kept) : kept[i] = accounts[k]
           /\ Len(kept) =
                 Cardinality({ k \in 1 .. Len(accounts) :
                                  FlagOfType(options, accounts[k].type) })
           /\ kept = SelectSeq(accounts, LAMBDA a : FlagOfType(options, a.type))

\* C5 witness: a returned response from which loan accounts were removed
\* while investment accounts were kept.
C5_Witness ==
    /\ pc = "returned"
    /\ ~options.include_loans
    /\ options.include_investments
    /\ CountOfType(accounts, "loan") > 0
    /\ CountOfType(result[1].accounts, "investment") > 0
    /\ Len(result[1].accounts) < Len(accounts)

\* C6: the 'No accounts available' error is thrown exactly when no generated
\* account passes the filter; then nothing was generated after the filter
\* and nothing is returned.  All four flags false always ends this way.
C6_NoAccountsErrorIffNoneLeft ==
    LET someKept ==
            \E k \in 1 .. Len(accounts) : FlagOfType(options, accounts[k].type)
        allOff ==
            /\ ~options.include_deposits
            /\ ~options.include_payments
            /\ ~options.include_investments
            /\ ~options.include_loans
    IN  /\ error = NoAccountsError =>
              /\ pc = "thrown"
              /\ ~someKept
              /\ added = <<>> /\ modified = <<>> /\ removed = <<>>
              /\ result = <<>>
        /\ pc \in AfterFilter => someKept /\ error = ""
        /\ (pc \in AfterFilter \/ (pc = "thrown" /\ error # MissingDataError)) =>
              (error = NoAccountsError <=> ~someKept)
        /\ (allOff /\ (pc \in AfterFilter \/ pc = "thrown")
                   /\ error # MissingDataError) =>
              error = NoAccountsError

\* C6 witness: the error thrown although one include flag is set (the size
\* tier generates no account of that type).
C6_Witness ==
    /\ error = NoAccountsError
    /\ options.include_investments
    /\ Len(accounts) > 0

\* C7: a missing company_name, industry, business_model or company_size
\* makes the call throw 'Missing required company profile data' before any
\* profile, account or transaction is generated; with all four present that
\* error is never thrown.
C7_MissingFieldsFailFast ==
    LET absent ==
            \/ companyData.company_name = <<>>
            \/ companyData.industry = ""
            \/ companyData.business_model = ""
            \/ companyData.company_size = ""
    IN  /\ (absent /\ pc # "start") =>
              /\ pc = "thrown"
              /\ error = MissingDataError
              /\ randomPos = 0
              /\ companyProfile = NoProfile
              /\ accounts = <<>>
              /\ added = <<>> /\ modified = <<>> /\ removed = <<>>
              /\ result = <<>>
        /\ ~absent => error # MissingDataError

\* C7 witness: the error thrown for a request that lacks only company_size.
C7_Witness ==
    /\ error = MissingDataError
    /\ companyData.company_size = ""
    /\ companyData.company_name # <<>>
    /\ companyData.industry # ""
    /\ companyData.business_model # ""

\* C8: a request whose start_date is not strictly before its end_date is
\* rejected by fullFormSchema and makes generateFinancialData fail rather
\* than return transactions.
C8_DateOrderEnforced ==
    options.start_date >= options.end_date =>
       /\ ~fullFormSchemaAccepts(options)
       /\ ~(pc = "returned" /\ Len(result[1].added) > 0)

\* C9: for each of the five size tiers generateAccountSet returns the
\* tier's total (3, 5, 7, 10, 15), which is the sum of the tier's five
\* counts; no smaller tier has a larger total.
C9_AccountTotalPerTier ==
    (pc \in AfterFilter \cup { "filter" }
        \/ (pc = "thrown" /\ error = NoAccountsError)) =>
       \A t \in 1 .. Len(COMPANY_SIZE_NAMES) :
          companyProfile.company_size = COMPANY_SIZE_NAMES[t] =>
             LET d == sizeToAccountCount(COMPANY_SIZE_NAMES[t])
             IN  /\ Len(accounts) = << 3, 5, 7, 10, 15 >>[t]
                 /\ Len(accounts) = d.total
                 /\ d.total = d.checking + d.savings + d.credit
                                 + d.investment + d.loan
                 /\ \A u \in 1 .. t :
                       sizeToAccountCount(COMPANY_SIZE_NAMES[u]).total
                          <= Len(accounts)

\* C9 witness: the account set of an Enterprise company has been generated.
C9_Witness ==
    /\ pc = "filter"
    /\ companyProfile.company_size = "Enterprise (1000+)"
    /\ Len(accounts) = 15

\* C10: counted by account type, the generated set holds checking + savings
\* depository accounts, table.credit credit accounts, table.investment
\* investment accounts and table.loan loan accounts.
C10_AccountCountsByType ==
    (pc \in AfterFilter \cup { "filter" }) =>
       LET d == sizeToAccountCount(companyProfile.company_size)
       IN  /\ CountOfType(accounts, "depository") = d.checking + d.savings
           /\ CountOfType(accounts, "credit") = d.credit
           /\ CountOfType(accounts, "investment") = d.investment
           /\ CountOfType(accounts, "loan") = d.loan

\* Positions at which generateAccountSet has returned.
AccountsGenerated == AfterFilter \cup { "filter" }

\* C11: every generated account satisfies the balance rules of its type:
\* depository - limit is null and available equals current; credit - limit
\* is not null, current is at most 0 and available is limit + current;
\* loan - current is below 0; investment - available is null.
C11_BalanceRulesPerType ==
    \A k \in 1 .. Len(accounts) :
       LET a == accounts[k]
           b == a.balances
       IN  /\ a.type = "depository" =>
                 b.limit = Null /\ b.available = << b.current >>
           /\ a.type = "credit" =>
                 /\ b.limit # Null
                 /\ b.current <= 0
                 /\ b.available = << b.limit[1] + b.current >>
           /\ a.type = "loan" => b.current < 0
           /\ a.type = "investment" => b.available = Null

\* C11 witness: a generated set that holds a depository account, a credit
\* card that is partly used, a line of credit, a loan and an investment
\* account.
C11_Witness ==
    /\ pc = "filter"
    /\ \E k \in 1 .. Len(accounts) : accounts[k].type = "depository"
    /\ \E k \in 1 .. Len(accounts) :
          /\ accounts[k].subtype = "credit card"
          /\ accounts[k].balances.current < 0
          /\ accounts[k].balances.available[1] > 0
    /\ \E k \in 1 .. Len(accounts) : accounts[k].subtype = "line of credit"
    /\ \E k \in 1 .. Len(accounts) : accounts[k].type = "loan"
    /\ \E k \in 1 .. Len(accounts) : accounts[k].type = "investment"

\* C12: within one generated account set no two accounts share an
\* account_id, whatever the random draws are.
C12_AccountIdsUnique ==
    pc \in AccountsGenerated =>
       \A i, j \in 1 .. Len(accounts) :
          i # j => accounts[i].account_id # accounts[j].account_id

\* m is t with its amount scaled by a factor between 0.95 and 1.05.
AmountScaledWithinFivePercent(m, t) ==
    LET q == Abs(t) \div (100 * RandDen)
    IN  /\ (m < 0) = (t < 0)
        /\ 95 * RandDen * q <= Abs(m)
        /\ Abs(m) <= 105 * RandDen * q

\* m differs from t in its amount only, in its pending flag only, or in its
\* category and category_id only.
DiffersInOneRespect(m, t) ==
    \/ /\ m.amount # t.amount
       /\ AmountScaledWithinFivePercent(m.amount, t.amount)
       /\ [m EXCEPT !.amount = t.amount] = t
    \/ /\ m.pending = ~t.pending
       /\ [m EXCEPT !.pending = t.pending] = t
    \/ /\ m.category # t.category \/ m.category_id # t.category_id
       /\ [m EXCEPT !.category = t.category, !.category_id = t.category_id] = t

\* C13: every entry of modified is a copy of an entry t of added, with t's
\* transaction_id and account_id, that differs from t in exactly one
\* respect: the amount scaled by a factor in [0.95, 1.05], the pending flag
\* negated, or category/category_id changed.
C13_ModifiedDiffersInOneRespect ==
    pc \in TxReturned \cup { "tx_remove" } =>
       \A i \in 1 .. Len(modified) :
          \E k \in 1 .. Len(added) :
             /\ modified[i].transaction_id = added[k].transaction_id
             /\ modified[i].account_id = added[k].account_id
             /\ DiffersInOneRespect(modified[i], added[k])

\* C14: deriving modified and removed leaves added as the sort left it
\* (same entries, same field values, same positions, same length), and a
\* transaction listed in removed is still an entry of added.
C14_AddedUntouchedByDeltas ==
    /\ [][(pc \in { "tx_modify", "tx_remove" }) => (added' = added)]_vars
    /\ [](pc \in TxReturned =>
             \A i \in 1 .. Len(removed) :
                \E k \in 1 .. Len(added) :
                   /\ added[k].transaction_id = removed[i].transaction_id
                   /\ added[k].account_id = removed[i].account_id)

\* C14 witness: generateTransactionSet has returned modified entries of
\* the three kinds of change, one of them differing from every entry of
\* added, and a removed entry.
C14_Witness ==
    /\ pc = "assemble"
    /\ Len(removed) > 0
    /\ Len(modified) > 1
    /\ \E i \in 1 .. Len(modified) :
          \A k \in 1 .. Len(added) : added[k] # modified[i]

\* The request carries the four required fields.
RequiredFieldsPresent == ~missingRequired(companyData)

SizeUnrecognized ==
    RequiredFieldsPresent /\ companyData.company_size \notin SeqToSet(COMPANY_SIZE_NAMES)

IndustryUnrecognized ==
    RequiredFieldsPresent /\ companyData.industry \notin SeqToSet(INDUSTRIES)

\* 0.8 * B * M <= revenue <= 1.2 * B * M for base revenue B and industry
\* multiplier M/10.
RevenueWithin(revenue, base, multiplierTenths) ==
    /\ 8 * (base \div 100) * multiplierTenths <= revenue
    /\ revenue <= 12 * (base \div 100) * multiplierTenths

\* The amount ranges of size tier 0: deposits of 500 to 5000, payments of 50
\* to 2000, rent up to twice the maximum.
TierZeroAmount(amount) ==
    IF amount > 0
    THEN 500 * AmountUnit <= amount /\ amount <= 5000 * AmountUnit
    ELSE 50 * AmountUnit <= 0 - amount /\ 0 - amount <= 2 * 2000 * AmountUnit

\* The fallbacks the generators apply to an unrecognized size or industry.
FallbacksApplied ==
    /\ pc \in AfterFilter \cup { "accounts", "filter" } =>
          RevenueWithin(companyProfile.annual_revenue,
             IF SizeUnrecognized THEN baseRevenues[1]
             ELSE baseRevenues[getSizeIndex(companyData.company_size) + 1],
             IF IndustryUnrecognized THEN 10
             ELSE industryMultipliers(companyData.industry))
    /\ SizeUnrecognized /\ pc \in AccountsGenerated =>
          /\ Len(accounts) = smallDistribution.total
          /\ CountOfType(accounts, "depository") = 2
          /\ CountOfType(accounts, "investment") = 1
    /\ SizeUnrecognized /\ pc \in TxReturned =>
          \A i \in 1 .. Len(added) : TierZeroAmount(added[i].amount)
    /\ IndustryUnrecognized /\ pc \in TxReturned =>
          \A i \in 1 .. Len(added) :
             added[i].amount < 0 =>
                added[i].merchant_name \in SeqToSet(COMMON_VENDORS)

\* C15: with the four required fields present and company_size and/or
\* industry not among the recognized values, generateFinancialData throws
\* only when the include flags leave none of the generated accounts, and
\* otherwise returns a complete result: revenue of tier 0 and multiplier
\* 1.0, the five accounts of the Small distribution, tier-0 amounts, and
\* merchants of the common vendor list only.
C15_UnrecognizedInputsFallBack ==
    (SizeUnrecognized \/ IndustryUnrecognized) =>
       /\ FallbacksApplied
       /\ pc = "thrown" =>
             /\ error = NoAccountsError
             /\ accounts # <<>>
             /\ filterAccounts(options, accounts) = <<>>
       /\ pc = "returned" => Len(result[1].accounts) > 0

\* The number of accounts of the set of a company size that the include
\* flags keep, from the distribution table alone: the first loan of a set is
\* a line of credit and is typed credit.
ExpectedKept(opts, companySize) ==
    LET d == sizeToAccountCount(companySize)
        lineOfCredit == IF d.loan > 0 THEN 1 ELSE 0
    IN  (IF opts.include_deposits THEN d.checking + d.savings ELSE 0)
      + (IF opts.include_payments THEN d.credit + lineOfCredit ELSE 0)
      + (IF opts.include_investments THEN d.investment ELSE 0)
      + (IF opts.include_loans THEN d.loan - lineOfCredit ELSE 0)

\* The length of added that generateTransactionSet returns, from the request
\* alone: the requested count when a depository account is kept, else none.
ExpectedAdded(opts) ==
    IF opts.include_deposits THEN opts.num_transactions ELSE 0

\* C16: the lengths of accounts, added, modified and removed are functions
\* of company data and options alone, whatever the random draws are:
\* generateTransactionSet returns min(floor(0.05 * N), len(added)) modified
\* and min(floor(0.02 * N), len(added)) removed entries for count N.
C16_LengthsDependOnInputsOnly ==
    LET N == options.num_transactions
    IN  /\ pc \in AccountsGenerated =>
              Len(accounts) = sizeToAccountCount(companyData.company_size).total
        /\ pc \in AfterFilter =>
              Len(filteredAccounts) = ExpectedKept(options, companyData.company_size)
        /\ pc \in { "tx_sort", "tx_modify", "tx_remove" } =>
              Len(added) = ExpectedAdded(options)
        /\ pc \in TxReturned =>
              /\ Len(added) = ExpectedAdded(options)
              /\ Len(modified) = Min((5 * N) \div 100, Len(added))
              /\ Len(removed) = Min((2 * N) \div 100, Len(added))
        /\ pc = "returned" =>
              /\ Len(result[1].accounts) = ExpectedKept(options, companyData.company_size)
              /\ Len(result[1].added) =
                    IF options.include_payments THEN ExpectedAdded(options) ELSE 0
              /\ Len(result[1].modified) = Len(modified)
              /\ Len(result[1].removed) = Len(removed)

\* C16 witness: a result with modified and removed entries whose number of
\* deposits is not the least the draws allow.
C16_Witness ==
    /\ pc = "returned"
    /\ Len(result[1].modified) = 2
    /\ Len(result[1].removed) = 1
    /\ Len(result[1].added) = 50
    /\ Len(SelectSeq(added, LAMBDA t : t.amount > 0)) > 10

\* Positions at which generateCompanyProfile has returned.
ProfileGenerated == AccountsGenerated \cup { "accounts" }

\* C17: the annual_revenue of a profile returned by generateCompanyProfile
\* is an integer greater than 0 between 0.8 * B * M and 1.2 * B * M, for the
\* base revenue B of the size tier and the industry multiplier M (1.0 for an
\* industry outside the table); an annual_revenue given in the input is
\* replaced by it.
C17_AnnualRevenueInRange ==
    pc \in ProfileGenerated =>
       LET revenue == companyProfile.annual_revenue
       IN  /\ revenue # NaN
           /\ revenue \in Nat
           /\ revenue > 0
           /\ RevenueWithin(revenue,
                 baseRevenues[getSizeIndex(companyProfile.company_size) + 1],
                 industryMultipliers(companyProfile.industry))

\* C18: when startDate <= endDate <= today are passed to
\* generateTransactionSet, the date of every transaction of added lies
\* between startDate and endDate at day granularity and is not after today.
C18_DatesWithinWindow ==
    (options.start_date <= options.end_date /\ options.end_date <= 0) =>
       \A i \in 1 .. Len(added) :
          /\ options.start_date <= added[i].date
          /\ added[i].date <= options.end_date
          /\ added[i].date <= 0

\* C19: parsing the text that formatDataForDownload makes of a generated
\* result gives a value deep-equal to the result: no field is lost, renamed
\* or changed in value or nullness.
C19_JsonRoundTrip ==
    pc = "downloaded" =>
       jsonParse(download[1]) = responseValue(result[1])

\* C19 witness: a result has been formatted that holds a null balance, a
\* null authorized_date and modified and removed entries.
C19_Witness ==
    /\ pc = "downloaded"
    /\ \E i \in 1 .. Len(result[1].accounts) :
          result[1].accounts[i].balances.limit = Null
    /\ \E i \in 1 .. Len(result[1].added) :
          result[1].added[i].authorized_date = Null
    /\ Len(result[1].modified) > 0
    /\ Len(result[1].removed) > 0

\* A CSV reader after RFC 4180 with line feed as record separator.

RECURSIVE readQuoted(_, _)
\* Reads up to the closing quote of a quoted field; a doubled quote stands
\* for one quote of the field.
readQuoted(text, field) ==
    IF text = <<>> THEN [field |-> field, rest |-> <<>>]
    ELSE IF Head(text) # Quote
    THEN readQuoted(Tail(text), field \o << Head(text) >>)
    ELSE IF Len(text) > 1 /\ text[2] = Quote
    THEN readQuoted(Tail(Tail(text)), field \o << Quote >>)
    ELSE [field |-> field, rest |-> Tail(text)]

RECURSIVE readUnquoted(_, _)
\* Reads up to the next comma, line feed or the end of the text.
readUnquoted(text, field) ==
    IF text = <<>> \/ Head(text) \in { Comma, Newline }
    THEN [field |-> field, rest |-> text]
    ELSE readUnquoted(Tail(text), field \o << Head(text) >>)

readField(text) ==
    IF text # <<>> /\ Head(text) = Quote
    THEN LET quoted == readQuoted(Tail(text), <<>>)
         IN  readUnquoted(quoted.rest, quoted.field)
    ELSE readUnquoted(text, <<>>)

RECURSIVE readRecord(_, _)
\* Reads the fields up to the next line feed outside quotes.
readRecord(text, record) ==
    LET read == readField(text)
    IN  IF read.rest # <<>> /\ Head(read.rest) = Comma
        THEN readRecord(Tail(read.rest), record \o << read.field >>)
        ELSE [record |-> record \o << read.field >>, rest |-> read.rest]

RECURSIVE readRecords(_, _)
readRecords(text, records) ==
    LET read == readRecord(text, <<>>)
    IN  IF read.rest = <<>> THEN records \o << read.record >>
        ELSE readRecords(Tail(read.rest), records \o << read.record >>)

parseCsv(text) == readRecords(text, <<>>)

\* The field contains a comma, a double quote or a newline.
NeedsQuoting(field) ==
    includesChar(field, Comma) \/ includesChar(field, Quote)
       \/ includesChar(field, Newline)

QuoteCount(field) == Cardinality({ i \in DOMAIN field : field[i] = Quote })

\* The field is emitted wrapped in quotes with its quotes doubled if it
\* needs quoting, and verbatim otherwise.
EmittedAsClaimed(field) ==
    LET emitted == escapeCsvField(field)
    IN  IF NeedsQuoting(field)
        THEN /\ Len(emitted) = Len(field) + QuoteCount(field) + 2
             /\ emitted[1] = Quote
             /\ emitted[Len(emitted)] = Quote
             /\ QuoteCount(emitted) = 2 * QuoteCount(field) + 2
             /\ SelectSeq(emitted, LAMBDA c : c # Quote)
                   = SelectSeq(field, LAMBDA c : c # Quote)
        ELSE emitted = field

ClaimedSound(data) ==
    LET accts == property(data, "accounts")[2]
        add == property(data, "added")[2]
    IN  /\ Len(accts) >= 1
        /\ ~falsy(property(data, "request_id"))
        /\ \A i \in DOMAIN accts :
              /\ ~falsy(property(accts[i], "account_id"))
              /\ property(accts[i], "balances")[1] = "object"
              /\ property(property(accts[i], "balances"), "current")[1] = "number"
        /\ \A i \in DOMAIN add :
              /\ ~falsy(property(add[i], "transaction_id"))
              /\ ~falsy(property(add[i], "date"))
              /\ property(add[i], "amount")[1] = "number"
              /\ \E j \in DOMAIN accts :
                    property(accts[j], "account_id")
                        = property(add[i], "account_id")

\* C21: validateFinancialData returns valid = true and no errors for every
\* response with at least one account, a request_id, accounts that have an
\* account_id and a numeric current balance (0 included) and added
\* transactions that have a transaction_id, a date, an amount and the
\* account_id of a listed account; a long date span or a future date gives
\* warnings only.
C21_SoundResponseIsValid ==
    (pc = "utilities" /\ validation # <<>> /\ ClaimedSound(result[1]))
        => (validation[1].valid /\ validation[1].errors = <<>>)

RECURSIVE sumOfAmounts(_, _)
\* The sum of the amounts of the first k transactions of a statement.
sumOfAmounts(statement, k) ==
    IF k = 0 THEN 0 ELSE sumOfAmounts(statement, k - 1) + statement[k].amount

\* The statement is in chronological order and its k-th balance is `start`
\* plus the amounts of transactions 1..k, rounded to cents.
RunningBalanceFrom(statement, start) ==
    /\ \A k \in 1 .. Len(statement) - 1 : statement[k].date <= statement[k + 1].date
    /\ \A k \in DOMAIN statement :
          statement[k].balance = roundToCents(start + sumOfAmounts(statement, k))

\* The bank account whose forEach call made the statement kept under `name`:
\* the last one of that name among those handled so far.
accountOfStatement(name) ==
    LET handled == IF pc = "mock_bank_statements" THEN iteration
                   ELSE Len(bankAccounts)
        named == { i \in 1 .. handled : bankAccounts[i].account_name = name }
    IN  bankAccounts[CHOOSE i \in named : \A j \in named : j <= i]

\* C22: every statement of generateMockData is in chronological order and
\* its k-th balance is the starting balance of the account the statement
\* was generated for (0 for a credit card) plus the sum of the amounts of
\* transactions 1..k, rounded to cents.
C22_RunningBalance ==
    /\ \A i \in DOMAIN bankStatements :
          RunningBalanceFrom(
              bankStatements[i][2],
              accountOfStatement(bankStatements[i][1]).starting_balance
                  * HalfCentsPerDollar)
    /\ \A i \in DOMAIN creditStatements :
          RunningBalanceFrom(creditStatements[i][2], 0)

\* C23: every result of generateFinancialData is a single complete page with
\* fixed values: has_more is false, next_cursor is "end" and
\* transactions_update_status is one of the values the
\* PlaidTransactionsResponse type declares.
C23_FixedSentinelValues ==
    pc \in Returned =>
        /\ result[1].has_more = FALSE
        /\ result[1].next_cursor = "end"
        /\ result[1].transactions_update_status \in TransactionsUpdateStatuses

\* No account passed to generateTransactionSet is a depository account.
NoDepositoryAccount ==
    \A i \in DOMAIN txAccounts : txAccounts[i].type # "depository"

\* Some account passed to generateTransactionSet can take payments.
SomePaymentAccount ==
    \E i \in DOMAIN txAccounts : txAccounts[i].type \in { "depository", "credit" }

\* C24: if the accounts passed to generateTransactionSet contain no
\* depository account it returns added = modified = removed = [] without
\* throwing, whatever addedCount is; the payment partition is empty only if
\* the depository partition is.
C24_NoDepositoryGivesEmptySet ==
    /\ (pc \in TxReturned /\ NoDepositoryAccount)
          => (added = <<>> /\ modified = <<>> /\ removed = <<>> /\ error = "")
    /\ (pc \in AfterFilter \cup { "thrown" } /\ error \notin { MissingDataError, NoAccountsError })
          => /\ ~SomePaymentAccount => NoDepositoryAccount
             /\ (pc = "thrown" => ~NoDepositoryAccount)

C24_Witness ==
    /\ pc = "returned"
    /\ NoDepositoryAccount
    /\ SomePaymentAccount
    /\ options.num_transactions # FewTransactions
    /\ result[1].added = <<>>
    /\ result[1].modified = <<>>
    /\ result[1].removed = <<>>

\* Positions between the payment loop and the return of generateTransactionSet
\* on the path that generates transactions.
PaymentsGenerated == { "tx_sort", "tx_modify", "tx_remove" }

depositsIn(txs) == Len(SelectSeq(txs, LAMBDA t : t.amount > 0))

paymentsIn(txs) == Len(SelectSeq(txs, LAMBDA t : t.amount < 0))

\* C26: for transaction count N and a non-empty depository partition,
\* generateTransactionSet generates D deposits with
\* floor(0.2 * N) <= D <= floor(0.3 * N) and exactly N - D payments, so that
\* deposits plus payments are N.
C26_DepositShare ==
    LET N == baseCount
    IN  /\ pc = "tx_payments" =>
              /\ Len(added) = depositsIn(added)
              /\ (2 * N) \div 10 <= Len(added)
              /\ Len(added) <= (3 * N) \div 10
        /\ pc \in PaymentsGenerated \/ (pc \in TxReturned /\ ~NoDepositoryAccount) =>
              /\ (2 * N) \div 10 <= depositsIn(added)
              /\ depositsIn(added) <= (3 * N) \div 10
              /\ paymentsIn(added) = N - depositsIn(added)
              /\ Len(added) = N

\* C26 witness: generateTransactionSet has returned 50 transactions of which
\* more than floor(0.2 * 50) are deposits.
C26_Witness ==
    /\ pc = "assemble"
    /\ baseCount = 50
    /\ depositsIn(added) > 10
    /\ paymentsIn(added) = 50 - depositsIn(added)

\* Every transaction of the list has a number as amount.
NumericAmounts(add) ==
    \A i \in DOMAIN add : property(add[i], "amount")[1] = "number"

RECURSIVE sumOfAbsoluteAmounts(_)
sumOfAbsoluteAmounts(add) ==
    IF add = <<>> THEN 0
    ELSE LET amount == property(Head(add), "amount")[2]
         IN  (IF amount < 0 THEN 0 - amount ELSE amount)
                + sumOfAbsoluteAmounts(Tail(add))

RECURSIVE sumOfCounts(_, _)
sumOfCounts(counts, keys) ==
    IF keys = {} THEN 0
    ELSE LET k == CHOOSE x \in keys : TRUE
         IN  counts[k] + sumOfCounts(counts, keys \ { k })

\* What calculateDataStatistics is to return for the response.
StatisticsOf(data, stats) ==
    LET accts == property(data, "accounts")[2]
        add == property(data, "added")[2]
    IN  /\ stats.totalAccounts = Len(accts)
        /\ stats.totalTransactions = Len(add)
        /\ NumericAmounts(add) =>
              /\ stats.transactionVolume = sumOfAbsoluteAmounts(add)
              /\ stats.averageTransactionAmount.numerator * Len(add)
                    = stats.transactionVolume * stats.averageTransactionAmount.denominator
        /\ add = <<>> => stats.averageTransactionAmount.numerator = 0
        /\ stats.averageTransactionAmount.denominator > 0
        /\ sumOfCounts(stats.accountTypes, DOMAIN stats.accountTypes)
              = stats.totalAccounts
        /\ sumOfCounts(stats.transactionsByMonth, DOMAIN stats.transactionsByMonth)
              = stats.totalTransactions

\* C29: calculateDataStatistics returns totalAccounts = len(accounts),
\* totalTransactions = len(added), transactionVolume = the sum of |amount|
\* over added and averageTransactionAmount = transactionVolume / len(added),
\* which is 0 when added is empty; the account counts per type sum to
\* totalAccounts and the transaction counts per month to totalTransactions;
\* the response it is given is left as it was.
C29_Statistics ==
    /\ [](statistics # <<>> => StatisticsOf(result[1], statistics[1]))
    /\ [][CalculateDataStatistics => result' = result]_vars

\* C29 witness: statistics of two accounts of different types and of two
\* transactions with amounts of different signs.
C29_Witness ==
    /\ statistics # <<>>
    /\ statistics[1].totalAccounts = 2
    /\ Cardinality(DOMAIN statistics[1].accountTypes) = 2
    /\ statistics[1].totalTransactions = 2
    /\ statistics[1].transactionVolume = 17
    /\ statistics[1].averageTransactionAmount = [numerator |-> 17, denominator |-> 2]

\* C30: every result generateFinancialData returns passes
\* validateFinancialData with valid = true and no errors, for every size,
\* industry, business model and combination of include_* flags for which the
\* generation does not throw, results with an empty added list included.
C30_GeneratedDataIsValid ==
    pc = "validated" =>
        /\ validation[1].valid
        /\ validation[1].errors = <<>>

\* C30 witness: a validated result with 50 transactions and a credit account
\* of negative balance.
C30_Witness ==
    /\ pc = "validated"
    /\ validation[1].valid
    /\ Len(result[1].added) = 50
    /\ \E i \in DOMAIN result[1].accounts :
          /\ result[1].accounts[i].type = "credit"
          /\ result[1].accounts[i].balances.current < 0

\* C28: for every transaction of added, authorized_date is not null and not
\* after date; it is date when pending is true and at most 2 days before
\* date when pending is false.
C28_AuthorizedDate ==
    pc \in PaymentsGenerated \cup TxReturned =>
        \A i \in DOMAIN added :
            LET t == added[i]
            IN  /\ t.authorized_date # Null
                /\ t.authorized_date[1] <= t.date
                /\ t.pending => t.authorized_date[1] = t.date
                /\ ~t.pending => t.date - t.authorized_date[1] <= 2

\* Positions at which the entries of added are those the loops have pushed.
DepositsGenerated == { "tx_payments" } \cup PaymentsGenerated \cup TxReturned

\* The transaction bears the id of an account of one of the types.
BookedOn(t, types) ==
    \E i \in DOMAIN txAccounts :
        /\ txAccounts[i].account_id = t.account_id
        /\ txAccounts[i].type \in types

\* C25: every transaction of added is a deposit with amount > 0 booked on a
\* depository account or a payment with amount < 0 booked on a depository or
\* credit account; no amount is 0 or NaN, for every size tier, unrecognized
\* size names and every business model.
C25_SignsAndAccounts ==
    /\ pc \in DepositsGenerated =>
          \A i \in DOMAIN added :
              LET t == added[i]
              IN  /\ t.amount # 0
                  /\ t.amount # NaN
                  /\ \/ t.amount > 0 /\ BookedOn(t, { "depository" })
                     \/ t.amount < 0 /\ BookedOn(t, { "depository", "credit" })
    /\ pc = "tx_payments" => \A i \in DOMAIN added : added[i].amount > 0
    /\ pc = "returned" => result[1].added = added

\* C25 witness: a result for a consulting company of unknown size with a
\* deposit below the smallest deposit size and a payment.
C25_Witness ==
    /\ pc = "returned"
    /\ companyProfile.company_size = "Unknown"
    /\ companyProfile.business_model = "Consulting"
    /\ \E i \in DOMAIN result[1].added :
          /\ result[1].added[i].amount > 0
          /\ result[1].added[i].amount < 300 * AmountUnit
    /\ \E i \in DOMAIN result[1].added : result[1].added[i].amount < 0

\* The rules of determineCategories of part_006 in the order of the source:
\* the parts looked for and the result.
CategoryRules ==
    << [parts |-> { "Restaurant", "Dining", "Food", "Starbucks", "Chipotle",
                    "McDonald's", "Uber Eats", "DoorDash" },
        categories |-> << "Food and Drink", "Restaurants" >>, categoryId |-> "13005000"],
       [parts |-> { "AWS", "Azure", "Google Cloud", "Digital Ocean", "Heroku"
                    },
        categories |-> << "Business Services", "Cloud Computing" >>, categoryId |-> "10002000"],
       [parts |-> { "GitHub", "Slack", "Zoom", "Adobe", "Microsoft" },
        categories |-> << "Technology", "Software", "Productivity" >>, categoryId |-> "10100000"],
       [parts |-> { "Facebook Ads", "Google Ads", "Instagram Ads", "LinkedIn"
                    },
        categories |-> << "Business Services", "Advertising", "Digital Marketing" >>, categoryId |-> "13000000"],
       [parts |-> { "Staples", "Office Depot", "Amazon Business" },
        categories |-> << "Shops", "Office Supplies" >>, categoryId |-> "19043000"],
       [parts |-> { "UPS", "FedEx", "USPS" },
        categories |-> << "Business Services", "Shipping", "Courier" >>, categoryId |-> "13004000"],
       [parts |-> { "Electric", "Water", "Gas" },
        categories |-> << "Service", "Utilities" >>, categoryId |-> "18000000"],
       [parts |-> { "Verizon", "AT&T", "Comcast", "Internet" },
        categories |-> << "Service", "Telecommunications" >>, categoryId |-> "18009000"],
       [parts |-> { "Rent", "Lease", "Facilities" },
        categories |-> << "Business Services", "Real Estate" >>, categoryId |-> "13011000"],
       [parts |-> { "Legal", "Accounting", "Consulting" },
        categories |-> << "Business Services", "Professional Services" >>, categoryId |-> "13005000"],
       [parts |-> { "Insurance" },
        categories |-> << "Business Services", "Insurance" >>, categoryId |-> "13001000"],
       [parts |-> { "Airlines", "Hotel", "Air", "Uber", "Lyft" },
        categories |-> << "Travel", "Business Travel" >>, categoryId |-> "22001000"] >>

DefaultCategory == << << "Business Services", "Other" >>, "13000000" >>

\* The merchant names the generator of part_006 passes to
\* generateBaseTransaction, and those formatMerchantDetails turns them into.
PassedMerchantNames ==
    SeqToSet(INDUSTRY_VENDORS("Technology")) \cup SeqToSet(COMMON_VENDORS)
        \cup SeqToSet(styledDepositSources)

StyledMerchantNames == PassedMerchantNames \cup SeqToSet(MERCHANT_NAME_STYLES)

\* The result of the first rule one of whose parts the name includes, and
\* the default if there is none.
FirstMatch(name) ==
    LET matching == { i \in DOMAIN CategoryRules :
                        styledIncludesAny(name, CategoryRules[i].parts) }
        first == CHOOSE i \in matching : \A j \in matching : i <= j
    IN  IF matching = {} THEN DefaultCategory
        ELSE << CategoryRules[first].categories, CategoryRules[first].categoryId >>

CategoriesOfOwnName(t) ==
    << t.category, t.category_id >> = styledDetermineCategories(t.merchant_name)

\* C27: determineCategories is a first-match-wins function of the merchant
\* name alone, a name matching no rule getting the default "Other" category,
\* and every transaction of added and of modified carries the category and
\* category_id determineCategories gives for its own merchant_name.
C27_CategoriesFollowMerchantName ==
    /\ pc = "tx_deposits" =>
          /\ \A name \in StyledMerchantNames :
                styledDetermineCategories(name) = FirstMatch(name)
          /\ \A name \in PassedMerchantNames :
                CategoriesOfOwnName(
                    styledGenerateBaseTransaction(
                        txAccounts[1], name, AmountUnit, 0, timeZoneEast,
                        randomTape, randomPos).tx)
    /\ pc \in DepositsGenerated =>
          \A i \in DOMAIN added : CategoriesOfOwnName(added[i])
    /\ pc \in { "tx_remove" } \cup TxReturned =>
          \A i \in DOMAIN modified : CategoriesOfOwnName(modified[i])

\* C27 witness: a returned set with a payment whose merchant name
\* formatMerchantDetails has replaced and that matches a rule, a deposit of
\* the default category, and a modified entry.
C27_Witness ==
    /\ pc = "returned"
    /\ \E i \in DOMAIN added :
          /\ added[i].merchant_name = "Comcast"
          /\ added[i].category = << "Service", "Telecommunications" >>
    /\ \E i \in DOMAIN added :
          /\ added[i].merchant_name = "Client Payment"
          /\ << added[i].category, added[i].category_id >> = DefaultCategory
    /\ modified # <<>>

====
